---------------------------- MODULE Spec2Model ----------------------------
(***************************************************************************)
(* A model of the nufmt layout engine (crates/nufmt-core): the token       *)
(* preprocessor, the string canonicalizer, the quantity estimator and the  *)
(* layout emitter, together with the format_source entry point.            *)
(*                                                                         *)
(* Text is modelled as a sequence of one-character strings, so that        *)
(* slicing, trimming and searching are computed the way the Rust code      *)
(* computes them.  A rendered document is the concatenation of its parts:  *)
(* the emitter only builds text, space and hardline documents (no group,   *)
(* no nest), which the pretty printer renders verbatim whatever the width. *)
(***************************************************************************)
EXTENDS Integers, Sequences, FiniteSets, TLC

VARIABLES
    source,        \* the source text handed to format_source
    flattened,     \* the analyzer's (span, shape) list for source
    parse_errors,  \* the analyzer's error list for source
    config,        \* the Config of the call
    pc,            \* position of the format_source call
    tokens,        \* Formatter.tokens
    index,         \* Formatter.index
    interp_depth,  \* Formatter.interp_depth
    indent_level,  \* Formatter.indent_level
    output,        \* the rendering of the documents built so far
    result,        \* what format_source returned
    trace,         \* values assigned to indent_level by the last handler
    step,          \* what the last format_next call read and emitted
    first_pass,    \* assert_idempotent: the result of the first call
    pre,           \* preprocess_tokens: the loop's local state
    quote,         \* convert_string_quotes: argument and return value
    load,          \* load_config_file: the file's values and the result
    cli,           \* the nufmt process: arguments, files, counters, exit code
    engine         \* ENGINE_STATE and the threads that call into the library

vars == <<source, flattened, parse_errors, config, pc, tokens, index,
          interp_depth, indent_level, output, result, trace, step,
          first_pass, pre, quote, load, cli, engine>>

-----------------------------------------------------------------------------
(* Bounds of the model.                                                    *)

MaxStrLen == 4      \* longest string literal token given to the canonicalizer
MaxSrcLen == 3      \* longest source given to the preprocessor alone
MaxSpans == 2       \* longest analyzer span list given to the preprocessor alone
MaxErrors == 3      \* longest analyzer error list
MaxPieces == 3
MaxIdemLen == 4       \* longest source formatted twice
MaxPhrases == 3       \* most phrases inside an interpolated subexpression
LongWordLen == 19     \* a word one short of the narrow max_width
MaxFiles == 2         \* most files one run formats
WidthSlack == 2       \* how far past each limit of validate the values go
MaxStages == 4        \* most commands of a generated pipeline
MaxElems == 2         \* most elements of a generated record or list
MaxGapLines == 3      \* most lines of a generated gap after its first line
MaxThreads == 3       \* threads that call into the library
MaxCalls == 2         \* most calls one thread makes

-----------------------------------------------------------------------------
(* str helpers, with the meaning of the Rust standard library.             *)

NL == "\n"

IsWs(c) == c \in {" ", "\n", "\t", "\r"}

Min(S) == CHOOSE x \in S : \A y \in S : x <= y

Max(S) == CHOOSE x \in S : \A y \in S : x >= y

NonWs(s) == {i \in 1..Len(s) : ~IsWs(s[i])}

Trim(s) == IF NonWs(s) = {} THEN <<>> ELSE SubSeq(s, Min(NonWs(s)), Max(NonWs(s)))

TrimStart(s) == IF NonWs(s) = {} THEN <<>> ELSE SubSeq(s, Min(NonWs(s)), Len(s))

TrimEnd(s) == IF NonWs(s) = {} THEN <<>> ELSE SubSeq(s, 1, Max(NonWs(s)))

Contains(s, c) == \E i \in 1..Len(s) : s[i] = c

ContainsStr(s, sub) ==
    \E i \in 0..(Len(s) - Len(sub)) : SubSeq(s, i + 1, i + Len(sub)) = sub

StartsWith(s, c) == Len(s) > 0 /\ s[1] = c

EndsWith(s, c) == Len(s) > 0 /\ s[Len(s)] = c

StartsWithWs(s) == Len(s) > 0 /\ IsWs(s[1])

EndsWithWs(s) == Len(s) > 0 /\ IsWs(s[Len(s)])

CountChar(s, c) == Cardinality({i \in 1..Len(s) : s[i] = c})

\* str::find(char): the 1-based position of the first occurrence, 0 for None.
Find(s, c) == IF Contains(s, c) THEN Min({i \in 1..Len(s) : s[i] = c}) ELSE 0

RECURSIVE Repeat(_, _)
Repeat(c, n) == IF n <= 0 THEN <<>> ELSE Append(Repeat(c, n - 1), c)

\* Option values.
None == [some |-> FALSE]

Some(v) == [some |-> TRUE, val |-> v]

RECURSIVE Flatten(_)
Flatten(ss) == IF ss = <<>> THEN <<>> ELSE Head(ss) \o Flatten(Tail(ss))

\* str::split('\n'): always at least one piece.
RECURSIVE SplitNl(_)
SplitNl(s) ==
    IF ~Contains(s, NL) THEN <<s>>
    ELSE <<SubSeq(s, 1, Find(s, NL) - 1)>> \o SplitNl(SubSeq(s, Find(s, NL) + 1, Len(s)))

StripCr(s) == IF EndsWith(s, "\r") THEN SubSeq(s, 1, Len(s) - 1) ELSE s

RECURSIVE MapStripCr(_)
MapStripCr(ls) == IF ls = <<>> THEN <<>> ELSE <<StripCr(Head(ls))>> \o MapStripCr(Tail(ls))

\* str::lines(): no piece for a final empty line, a trailing \r removed.
Lines(s) ==
    LET parts == SplitNl(s)
    IN MapStripCr(IF parts[Len(parts)] = <<>> THEN SubSeq(parts, 1, Len(parts) - 1)
                  ELSE parts)

\* lines().map(str::trim).filter(|l| !l.is_empty())
RECURSIVE TrimmedNonEmpty(_)
TrimmedNonEmpty(ls) ==
    IF ls = <<>> THEN <<>>
    ELSE IF Trim(Head(ls)) = <<>> THEN TrimmedNonEmpty(Tail(ls))
    ELSE <<Trim(Head(ls))>> \o TrimmedNonEmpty(Tail(ls))

\* str::trim_end_matches(char)
RECURSIVE TrimEndMatches(_, _)
TrimEndMatches(s, c) ==
    IF EndsWith(s, c) THEN TrimEndMatches(SubSeq(s, 1, Len(s) - 1), c) ELSE s

\* usize::saturating_sub
saturating_sub(a, b) == IF a > b THEN a - b ELSE 0

\* All sequences over a set up to a length.
RECURSIVE SeqsUpTo(_, _)
SeqsUpTo(S, n) ==
    IF n = 0 THEN {<<>>}
    ELSE LET shorter == SeqsUpTo(S, n - 1)
         IN shorter \cup {Append(s, c) : s \in shorter, c \in S}

-----------------------------------------------------------------------------
(* config.rs                                                               *)

QuoteStyles == {"Preserve", "Double", "Single"}

BracketSpacings == {"Spaced", "Compact"}

TrailingCommas == {"Always", "Never"}

DefaultConfig ==
    [indent_width |-> 2, max_width |-> 100, quote_style |-> "Double",
     bracket_spacing |-> "Spaced", trailing_comma |-> "Always"]

MaxIndentWidth == 16

MinMaxWidth == 20

MaxMaxWidth == 500

ConfigOk == [ok |-> TRUE]

ConfigError(message) == [ok |-> FALSE, message |-> message]

validate_max_width_exclusive(cfg) ==
    IF cfg.indent_width = 0 \/ cfg.indent_width > MaxIndentWidth
    THEN ConfigError("indent_width must be between 1 and 16")
    ELSE IF cfg.max_width <= MinMaxWidth \/ cfg.max_width > MaxMaxWidth
    THEN ConfigError("max_width must be between 20 and 500")
    ELSE ConfigOk

validate(cfg) ==
    IF cfg.indent_width = 0 \/ cfg.indent_width > MaxIndentWidth
    THEN ConfigError("indent_width must be between 1 and 16")
    ELSE IF cfg.max_width < MinMaxWidth \/ cfg.max_width > MaxMaxWidth
    THEN ConfigError("max_width must be between 20 and 500")
    ELSE ConfigOk

-----------------------------------------------------------------------------
(* format/string.rs                                                        *)

DQ == "\""

SQ == "'"

BS == "\\"

\* token.strip_prefix(q).and_then(|s| s.strip_suffix(q))
StripQuotes(token, q) ==
    IF ~StartsWith(token, q) THEN None
    ELSE LET s == SubSeq(token, 2, Len(token))
         IN IF ~EndsWith(s, q) THEN None ELSE Some(SubSeq(s, 1, Len(s) - 1))

to_double_quotes_no_backslash_check(token) ==
    IF StartsWith(token, DQ) THEN token
    ELSE LET content == StripQuotes(token, SQ)
         IN IF ~content.some THEN token
            ELSE IF Contains(content.val, DQ) THEN token
            ELSE <<DQ>> \o content.val \o <<DQ>>

to_double_quotes(token) ==
    IF StartsWith(token, DQ) THEN token
    ELSE LET content == StripQuotes(token, SQ)
         IN IF ~content.some THEN token
            ELSE IF Contains(content.val, DQ) \/ Contains(content.val, BS) THEN token
            ELSE <<DQ>> \o content.val \o <<DQ>>

to_single_quotes_toggle(token) ==
    IF StartsWith(token, SQ)
    THEN LET content == StripQuotes(token, SQ)
         IN IF ~content.some THEN token ELSE <<DQ>> \o content.val \o <<DQ>>
    ELSE LET content == StripQuotes(token, DQ)
         IN IF ~content.some THEN token
            ELSE IF Contains(content.val, SQ) \/ Contains(content.val, BS) THEN token
            ELSE <<SQ>> \o content.val \o <<SQ>>

to_single_quotes_strip_two(token) ==
    IF StartsWith(token, SQ) THEN token
    ELSE LET content == StripQuotes(token, DQ)
         IN IF ~content.some THEN token
            ELSE IF Contains(content.val, SQ) \/ Contains(content.val, BS) THEN token
            ELSE <<SQ>> \o SubSeq(content.val, 2, Len(content.val)) \o <<SQ>>

to_single_quotes(token) ==
    IF StartsWith(token, SQ) THEN token
    ELSE LET content == StripQuotes(token, DQ)
         IN IF ~content.some THEN token
            ELSE IF Contains(content.val, SQ) \/ Contains(content.val, BS) THEN token
            ELSE <<SQ>> \o content.val \o <<SQ>>

convert_string_quotes(token, style) ==
    CASE style = "Preserve" -> token
      [] style = "Double" -> to_double_quotes(token)
      [] style = "Single" -> to_single_quotes(token)

-----------------------------------------------------------------------------
(* format/mod.rs: is_resolution_error, and the ParseError variants used    *)

ResolutionErrors ==
    {"VariableNotFound", "ModuleNotFound", "ModuleOrOverlayNotFound",
     "ActiveOverlayNotFound", "ExportNotFound", "FileNotFound",
     "SourcedFileNotFound", "RegisteredFileNotFound", "PluginNotFound",
     "UnknownCommand", "ExtraPositional", "InputMismatch"}

SyntaxErrors == {"Unclosed", "UnexpectedEof", "Expected"}

is_resolution_error_no_input_mismatch(error) ==
    error.kind \in ResolutionErrors \ {"InputMismatch"}

is_resolution_error(error) == error.kind \in ResolutionErrors

\* working_set.parse_errors.iter().find(|e| !is_resolution_error(e))
RECURSIVE find_syntax_error(_)
find_syntax_error(errors) ==
    IF errors = <<>> THEN None
    ELSE IF ~is_resolution_error(Head(errors)) THEN Some(Head(errors))
    ELSE find_syntax_error(Tail(errors))

-----------------------------------------------------------------------------
(* format/token.rs                                                         *)

\* One iteration of the loop of preprocess_tokens over a (span, shape) pair.
\* Offsets are byte offsets as in Rust: the slice [a..b] is SubSeq(a+1, b).
PreprocessPair_no_overlap_check(src, pair, st) ==
    IF pair.start > pair.end \/ pair.end > Len(src)
    THEN st
    ELSE [tokens |-> Append(st.tokens,
                        [text |-> SubSeq(src, pair.start + 1, pair.end),
                         shape |-> pair.shape,
                         gap_before |-> SubSeq(src, st.last_end + 1, pair.start)]),
          last_end |-> pair.end]

PreprocessPair(src, pair, st) ==
    IF pair.start < st.last_end \/ pair.start > pair.end \/ pair.end > Len(src)
    THEN st
    ELSE [tokens |-> Append(st.tokens,
                        [text |-> SubSeq(src, pair.start + 1, pair.end),
                         shape |-> pair.shape,
                         gap_before |-> SubSeq(src, st.last_end + 1, pair.start)]),
          last_end |-> pair.end]

\* The synthetic token for trailing content, after the loop.
PreprocessTail_never(src, st) == st.tokens

PreprocessTail(src, st) ==
    IF st.last_end < Len(src)
    THEN Append(st.tokens,
            [text |-> <<>>, shape |-> "Nothing",
             gap_before |-> SubSeq(src, st.last_end + 1, Len(src))])
    ELSE st.tokens

RECURSIVE PreprocessLoop(_, _, _)
PreprocessLoop(src, pairs, st) ==
    IF pairs = <<>> THEN st
    ELSE PreprocessLoop(src, Tail(pairs), PreprocessPair(src, Head(pairs), st))

preprocess_tokens(src, pairs) ==
    PreprocessTail(src, PreprocessLoop(src, pairs, [tokens |-> <<>>, last_end |-> 0]))

-----------------------------------------------------------------------------
(* format/closure.rs                                                       *)

\* (params, rest): params is None unless the content starts (after leading
\* whitespace) with '|' and has a second '|'.
parse_closure_params(content) ==
    LET trimmed == TrimStart(content)
        closing == {j \in 2..Len(trimmed) : trimmed[j] = "|"}
    IN IF ~StartsWith(trimmed, "|") \/ closing = {}
       THEN [params |-> None, rest |-> content]
       ELSE [params |-> Some(SubSeq(trimmed, 1, Min(closing))),
             rest |-> SubSeq(trimmed, Min(closing) + 1, Len(trimmed))]

-----------------------------------------------------------------------------
(* format/mod.rs: the Formatter.  A handler is an operator from what it    *)
(* reads (the token vector, the position k of the current token, the       *)
(* indent level, the configuration) to the document it returns, the indent *)
(* level it leaves and the values it assigned to indent_level on the way.  *)

R(doc, lvl, tr) == [doc |-> doc, lvl |-> lvl, trace |-> tr]

indent_str(lvl, cfg) == Repeat(" ", lvl * cfg.indent_width)

\* arena.hardline() followed by arena.text(indent_str())
HardIndent(lvl, cfg) == <<NL>> \o indent_str(lvl, cfg)

\* One iteration of the line loop of format_gap (the general multi-line
\* procedure).  acc = [doc, emitted_newline]; ind is indent_str().
GapLine(lines, i, acc, newline_count, ind) ==
    LET line == lines[i]
        trimmed == Trim(line)
        first_line == (i = 1)
        has_more == (i < Len(lines))
        comment_start == Find(trimmed, "#")
        A(doc, emitted) == [doc |-> doc, emitted_newline |-> emitted]
    IN IF comment_start # 0 THEN
           LET before == Trim(SubSeq(trimmed, 1, comment_start - 1))
               comment == SubSeq(trimmed, comment_start, Len(trimmed))
               a == IF before # <<>> THEN
                        IF ~first_line /\ ~acc.emitted_newline
                        THEN A(acc.doc \o <<NL>> \o ind \o before \o <<" ">>, TRUE)
                        ELSE IF first_line
                        THEN A(acc.doc \o <<" ">> \o before \o <<" ">>, acc.emitted_newline)
                        ELSE A(acc.doc \o before \o <<" ">>, acc.emitted_newline)
                    ELSE IF first_line
                    THEN A(acc.doc \o (IF StartsWithWs(line) THEN <<" ">> ELSE <<>>),
                           acc.emitted_newline)
                    ELSE IF ~acc.emitted_newline
                    THEN A(acc.doc \o <<NL>> \o ind, TRUE)
                    ELSE acc
           IN IF has_more THEN A(a.doc \o comment \o <<NL>> \o ind, TRUE)
              ELSE A(a.doc \o comment, a.emitted_newline)
       ELSE IF trimmed # <<>> THEN
           LET a == IF ~first_line /\ ~acc.emitted_newline
                    THEN A(acc.doc \o <<NL>> \o ind, TRUE)
                    ELSE IF first_line
                    THEN A(acc.doc \o (IF StartsWithWs(line) THEN <<" ">> ELSE <<>>),
                           acc.emitted_newline)
                    ELSE acc
               after == IF has_more
                        THEN IF ~EndsWith(trimmed, ".") /\ Trim(lines[i + 1]) # <<>>
                             THEN <<" ">> ELSE <<>>
                        ELSE IF ~EndsWith(trimmed, ".") /\ EndsWithWs(line)
                             THEN <<" ">> ELSE <<>>
           IN A(a.doc \o trimmed \o after, a.emitted_newline)
       ELSE IF has_more /\ ~first_line THEN
           A(acc.doc \o (IF ~acc.emitted_newline THEN <<NL>> ELSE <<>>)
                     \o (IF newline_count > 1 THEN <<NL>> ELSE <<>>),
             TRUE)
       ELSE acc

RECURSIVE GapLoop(_, _, _, _, _)
GapLoop(lines, i, acc, newline_count, ind) ==
    IF i > Len(lines) THEN acc
    ELSE GapLoop(lines, i + 1, GapLine(lines, i, acc, newline_count, ind),
                 newline_count, ind)

\* One iteration of the line loop of format_structural_gap.
\* st = [doc, lvl, need, trace]; need is need_newline_before_next.
StructLine(lines, i, st, cfg) ==
    LET line == lines[i]
        trimmed == Trim(line)
        is_first == (i = 1)
        is_last == (i = Len(lines))
        line_opens == CountChar(trimmed, "{")
        line_closes == CountChar(trimmed, "}")
        S(doc, lvl, need, tr) ==
            [doc |-> doc, lvl |-> lvl, need |-> need, trace |-> st.trace \o tr]
    IN IF trimmed = <<>> THEN
           IF ~is_first /\ ~is_last THEN S(st.doc, st.lvl, TRUE, <<>>) ELSE st
       ELSE IF is_first THEN
           IF trimmed = <<",">> THEN S(st.doc \o <<",">>, st.lvl, TRUE, <<>>)
           ELSE IF EndsWith(trimmed, "{") THEN
               LET l1 == st.lvl + line_opens
               IN S(st.doc \o <<" ">> \o trimmed \o HardIndent(l1, cfg), l1, FALSE, <<l1>>)
           ELSE
               LET l1 == st.lvl + line_opens
                   l2 == saturating_sub(l1, line_closes)
               IN S(st.doc \o <<" ">> \o trimmed, l2, TRUE, <<l1, l2>>)
       ELSE
           LET d0 == IF st.need THEN st.doc \o <<NL>> ELSE st.doc
           IN IF trimmed = <<"}">> THEN
                  LET l1 == saturating_sub(st.lvl, 1)
                  IN S(d0 \o indent_str(l1, cfg) \o trimmed, l1, ~is_last, <<l1>>)
              ELSE
                  LET l1 == st.lvl + line_opens
                      l2 == saturating_sub(l1, line_closes)
                  IN S(d0 \o indent_str(st.lvl, cfg) \o trimmed, l2, ~is_last, <<l1, l2>>)

RECURSIVE StructLoop(_, _, _, _)
StructLoop(lines, i, st, cfg) ==
    IF i > Len(lines) THEN st
    ELSE StructLoop(lines, i + 1, StructLine(lines, i, st, cfg), cfg)

format_structural_gap(gap, lvl, cfg) ==
    IF ~Contains(gap, NL) THEN
        LET trimmed == Trim(gap)
            l1 == lvl + CountChar(gap, "{")
            l2 == saturating_sub(l1, CountChar(gap, "}"))
        IN R(<<" ">> \o trimmed
                 \o (IF trimmed # <<>> /\ ~EndsWith(trimmed, "{") THEN <<" ">> ELSE <<>>),
             l2, <<l1, l2>>)
    ELSE
        LET st == StructLoop(SplitNl(gap), 1,
                             [doc |-> <<>>, lvl |-> lvl, need |-> FALSE, trace |-> <<>>],
                             cfg)
            last_char == gap[Len(gap)]
        IN IF st.need THEN R(st.doc \o HardIndent(st.lvl, cfg), st.lvl, st.trace)
           ELSE IF ~IsWs(last_char) /\ last_char # "{"
           THEN R(st.doc \o <<" ">>, st.lvl, st.trace)
           ELSE R(st.doc, st.lvl, st.trace)

format_gap(gap, lvl, cfg) ==
    IF gap = <<>> THEN R(<<>>, lvl, <<>>)
    ELSE IF ~Contains(gap, NL) THEN
        IF Trim(gap) = <<>> THEN R(<<" ">>, lvl, <<>>)
        ELSE R(<<" ">> \o Trim(gap) \o <<" ">>, lvl, <<>>)
    ELSE IF Contains(gap, "{") \/ Contains(gap, "}")
            \/ ContainsStr(gap, <<",", NL>>) \/ ContainsStr(gap, <<",", "\r", NL>>)
    THEN format_structural_gap(gap, lvl, cfg)
    ELSE
        LET acc == GapLoop(SplitNl(gap), 1, [doc |-> <<>>, emitted_newline |-> FALSE],
                           CountChar(gap, NL), indent_str(lvl, cfg))
        IN IF acc.doc = <<>> THEN R(HardIndent(lvl, cfg), lvl, <<>>)
           ELSE R(acc.doc, lvl, <<>>)

-----------------------------------------------------------------------------
(* format/mod.rs: the quantity estimator.  class is "collection" or        *)
(* "block": the four closures estimate_collection_length and               *)
(* estimate_block_length hand to estimate_delimited_length.                *)

Brackets(open) == IF open THEN {<<"{">>, <<"[">>} ELSE {<<"}">>, <<"]">>}

ShapeMatches(class, shape) ==
    IF class = "collection" THEN shape \in {"Record", "List"}
    ELSE shape \in {"Block", "Closure"}

IsOpen(class, trimmed) ==
    IF class = "collection" THEN trimmed \in Brackets(TRUE) ELSE StartsWith(trimmed, "{")

IsClose(class, trimmed) ==
    IF class = "collection" THEN trimmed \in Brackets(FALSE) ELSE EndsWith(trimmed, "}")

TokenLen(class, trimmed, depth) ==
    IF class = "block" THEN Len(trimmed)
    ELSE IF trimmed \in Brackets(TRUE) THEN 1
    ELSE IF trimmed \in Brackets(FALSE) THEN (IF depth > 1 THEN 1 ELSE 0)
    ELSE IF trimmed \in {<<":">>, <<",">>} THEN 2
    ELSE Len(trimmed)

\* One iteration of the while loop: est = [length, depth, has_newline].
EstimateToken(t, class, est) ==
    LET gap_trimmed == Trim(t.gap_before)
        gap_len == IF gap_trimmed # <<>> THEN Len(gap_trimmed) + 1
                   ELSE IF t.gap_before # <<>> THEN 1 ELSE 0
        trimmed == Trim(t.text)
        matches == ShapeMatches(class, t.shape)
        d1 == IF matches /\ IsOpen(class, trimmed) THEN est.depth + 1 ELSE est.depth
        d2 == IF matches /\ IsClose(class, trimmed) THEN d1 - 1 ELSE d1
    IN [length |-> est.length + gap_len + TokenLen(class, trimmed, d2),
        depth |-> d2,
        has_newline |-> est.has_newline \/ Contains(t.gap_before, NL)]

RECURSIVE EstimateLoop(_, _, _, _)
EstimateLoop(toks, idx, class, est) ==
    IF idx > Len(toks) \/ est.depth <= 0 THEN est
    ELSE EstimateLoop(toks, idx + 1, class, EstimateToken(toks[idx], class, est))

\* Called while formatting token k: self.index already points to token k+1.
estimate_delimited_length(toks, k, class) ==
    EstimateLoop(toks, k + 1, class, [length |-> 2, depth |-> 1, has_newline |-> FALSE])

estimate_collection_length(toks, k) == estimate_delimited_length(toks, k, "collection")

estimate_block_length(toks, k) == estimate_delimited_length(toks, k, "block")

-----------------------------------------------------------------------------
(* format/mod.rs: blocks and closures                                      *)

\* The inner loop of format_multi_close: the j-th '}' of a line.
RECURSIVE MultiCloseBraces(_, _, _, _, _, _)
MultiCloseBraces(j, brace_count, st, has_newline, is_first, cfg) ==
    IF j >= brace_count THEN st
    ELSE LET l1 == saturating_sub(st.lvl, 1)
             brk == IF has_newline /\ (j > 0 \/ ~is_first) THEN HardIndent(l1, cfg) ELSE <<>>
         IN MultiCloseBraces(j + 1, brace_count,
                             R(st.doc \o brk \o <<"}">>, l1, Append(st.trace, l1)),
                             has_newline, is_first, cfg)

MultiCloseLine(lines, i, st, has_newline, cfg) ==
    LET trimmed == Trim(lines[i])
        brace_pos == Find(trimmed, "}")
        before == IF brace_pos # 0 THEN Trim(SubSeq(trimmed, 1, brace_pos - 1)) ELSE <<>>
    IN IF trimmed = <<>> THEN st
       ELSE MultiCloseBraces(0, CountChar(trimmed, "}"),
                             R(st.doc \o before, st.lvl, st.trace),
                             has_newline, i = 1, cfg)

RECURSIVE MultiCloseLoop(_, _, _, _, _)
MultiCloseLoop(lines, i, st, has_newline, cfg) ==
    IF i > Len(lines) THEN st
    ELSE MultiCloseLoop(lines, i + 1, MultiCloseLine(lines, i, st, has_newline, cfg),
                        has_newline, cfg)

format_multi_close(text, lvl, cfg) ==
    MultiCloseLoop(SplitNl(text), 1, R(<<>>, lvl, <<>>), Contains(text, NL), cfg)

\* indent + line for each line, joined by hardlines (arena.intersperse).
RECURSIVE IndentedLines(_, _)
IndentedLines(ls, indent) ==
    IF ls = <<>> THEN <<>>
    ELSE IF Len(ls) = 1 THEN indent \o ls[1]
    ELSE indent \o ls[1] \o <<NL>> \o IndentedLines(Tail(ls), indent)

format_complete_block(trimmed, source_multiline, lvl, cfg) ==
    LET inner == SubSeq(trimmed, 2, Len(trimmed) - 1)
        pr == parse_closure_params(inner)
        body == pr.rest
        body_trimmed == Trim(body)
        open_with_params == IF pr.params.some THEN <<"{">> \o pr.params.val ELSE <<"{">>
    IN IF body_trimmed = <<>> THEN R(open_with_params \o <<" ", "}">>, lvl, <<>>)
       ELSE IF source_multiline \/ Contains(body, NL) THEN
           R(open_with_params \o <<NL>>
                 \o IndentedLines(TrimmedNonEmpty(Lines(body)), indent_str(lvl + 1, cfg))
                 \o <<NL>> \o indent_str(lvl + 1 - 1, cfg) \o <<"}">>,
             lvl + 1 - 1, <<lvl + 1, lvl + 1 - 1>>)
       ELSE R(open_with_params \o <<" ">> \o body_trimmed \o <<" ", "}">>, lvl, <<>>)

format_block_open(toks, k, trimmed, source_multiline, lvl, cfg) ==
    LET est == estimate_block_length(toks, k)
        force_multiline ==
            source_multiline \/ est.has_newline \/ est.length > cfg.max_width
        after_brace == IF StartsWith(trimmed, "{") THEN SubSeq(trimmed, 2, Len(trimmed))
                       ELSE trimmed
        pr == parse_closure_params(after_brace)
        open_with_params == IF pr.params.some THEN <<"{">> \o pr.params.val ELSE <<"{">>
        l1 == lvl + 1
        rest_trimmed == IF pr.params.some THEN Trim(pr.rest) ELSE Trim(after_brace)
        indent == indent_str(l1, cfg)
    IN IF force_multiline THEN
           IF rest_trimmed = <<>> THEN R(open_with_params \o <<NL>> \o indent, l1, <<l1>>)
           ELSE R(open_with_params \o <<NL>>
                      \o IndentedLines(TrimmedNonEmpty(Lines(rest_trimmed)), indent)
                      \o <<NL>> \o indent,
                  l1, <<l1>>)
       ELSE R(open_with_params \o <<" ">>, l1, <<l1>>)

format_block_close_plain_sub(has_newline, lvl, cfg) ==
    LET l1 == lvl - 1
    IN IF has_newline THEN R(HardIndent(l1, cfg) \o <<"}">>, l1, <<l1>>)
       ELSE R(<<" ", "}">>, l1, <<l1>>)

format_block_close(has_newline, lvl, cfg) ==
    LET l1 == saturating_sub(lvl, 1)
    IN IF has_newline THEN R(HardIndent(l1, cfg) \o <<"}">>, l1, <<l1>>)
       ELSE R(<<" ", "}">>, l1, <<l1>>)

format_brace_block(toks, k, lvl, cfg) ==
    LET text == toks[k].text
        trimmed == Trim(text)
        has_open == StartsWith(trimmed, "{")
        has_close == EndsWith(trimmed, "}")
        has_newline == Contains(text, NL)
    IN IF ~has_open /\ CountChar(trimmed, "}") > 1 THEN format_multi_close(text, lvl, cfg)
       ELSE IF has_open /\ has_close THEN format_complete_block(trimmed, has_newline, lvl, cfg)
       ELSE IF has_open THEN format_block_open(toks, k, trimmed, has_newline, lvl, cfg)
       ELSE IF has_close THEN format_block_close(has_newline, lvl, cfg)
       ELSE R(text, lvl, <<>>)

format_paren_block(toks, k, lvl, cfg) ==
    LET text == toks[k].text
        trimmed == Trim(text)
        has_newline == Contains(text, NL)
    IN IF trimmed = <<"(">> THEN
           IF has_newline THEN R(<<"(">> \o HardIndent(lvl + 1, cfg), lvl + 1, <<lvl + 1>>)
           ELSE R(<<"(">>, lvl, <<>>)
       ELSE IF trimmed = <<")">> THEN
           IF has_newline
           THEN LET l1 == saturating_sub(lvl, 1)
                IN R(HardIndent(l1, cfg) \o <<")">>, l1, <<l1>>)
           ELSE R(<<")">>, lvl, <<>>)
       ELSE R(text, lvl, <<>>)

format_block_token(toks, k, lvl, cfg) ==
    LET trimmed == Trim(toks[k].text)
    IN IF StartsWith(trimmed, "{") \/ EndsWith(trimmed, "}")
       THEN format_brace_block(toks, k, lvl, cfg)
       ELSE IF StartsWith(trimmed, "(") \/ EndsWith(trimmed, ")")
       THEN format_paren_block(toks, k, lvl, cfg)
       ELSE R(toks[k].text, lvl, <<>>)

-----------------------------------------------------------------------------
(* format/mod.rs: pipes, collections, strings                              *)

format_pipe_token_hardline(toks, k, lvl) ==
    LET next_gap_will_add_space == k < Len(toks) /\ toks[k + 1].gap_before # <<>>
        gap_provided_leading == toks[k].gap_before # <<>>
    IN R((IF ~gap_provided_leading THEN <<NL>> ELSE <<>>) \o <<"|">>
             \o (IF ~next_gap_will_add_space THEN <<" ">> ELSE <<>>),
         lvl, <<>>)

format_pipe_token(toks, k, lvl) ==
    LET next_gap_will_add_space == k < Len(toks) /\ toks[k + 1].gap_before # <<>>
        gap_provided_leading == toks[k].gap_before # <<>>
    IN R((IF ~gap_provided_leading THEN <<" ">> ELSE <<>>) \o <<"|">>
             \o (IF ~next_gap_will_add_space THEN <<" ">> ELSE <<>>),
         lvl, <<>>)

\* The backward scan of is_in_multiline_collection, from token i down.
RECURSIVE ScanBack(_, _, _)
ScanBack(toks, i, depth) ==
    IF i < 1 THEN FALSE
    ELSE LET t == toks[i]
             trimmed == Trim(t.text)
         IN IF t.shape \in {"Record", "List"} /\ trimmed \in Brackets(FALSE)
            THEN ScanBack(toks, i - 1, depth + 1)
            ELSE IF t.shape \in {"Record", "List"} /\ trimmed \in Brackets(TRUE)
            THEN IF depth = 0 THEN Contains(t.text, NL) \/ Contains(t.gap_before, NL)
                 ELSE ScanBack(toks, i - 1, depth - 1)
            ELSE ScanBack(toks, i - 1, depth)

\* Called while formatting token k: the scan is over 0..self.index, which
\* includes token k itself.
is_in_multiline_collection(toks, k) == ScanBack(toks, k, 0)

format_collection_open(toks, k, bracket, source_multiline, lvl, cfg) ==
    LET est == estimate_collection_length(toks, k)
        force_multiline ==
            source_multiline \/ est.has_newline \/ est.length > cfg.max_width
    IN IF force_multiline THEN R(bracket \o HardIndent(lvl + 1, cfg), lvl + 1, <<lvl + 1>>)
       ELSE IF cfg.bracket_spacing = "Spaced" THEN R(bracket \o <<" ">>, lvl, <<>>)
       ELSE R(bracket, lvl, <<>>)

TrailingCommaDoc(cfg) == IF cfg.trailing_comma = "Always" THEN <<",">> ELSE <<>>

format_collection_close(bracket, source_multiline, lvl, cfg) ==
    IF source_multiline THEN
        LET l1 == saturating_sub(lvl, 1)
        IN R(TrailingCommaDoc(cfg) \o HardIndent(l1, cfg) \o bracket, l1, <<l1>>)
    ELSE IF cfg.bracket_spacing = "Spaced" THEN R(<<" ">> \o bracket, lvl, <<>>)
    ELSE R(bracket, lvl, <<>>)

format_collection_close_complex(trimmed, source_multiline, lvl, cfg) ==
    LET bracket == IF Contains(trimmed, "}") THEN "}" ELSE "]"
        prefix == TrimEndMatches(trimmed, bracket)
    IN IF source_multiline THEN
           LET l1 == saturating_sub(lvl, 1)
           IN R(prefix \o TrailingCommaDoc(cfg) \o HardIndent(l1, cfg) \o <<bracket>>,
                l1, <<l1>>)
       ELSE IF cfg.bracket_spacing = "Spaced" THEN R(prefix \o <<" ", bracket>>, lvl, <<>>)
       ELSE R(prefix \o <<bracket>>, lvl, <<>>)

format_newline_separator(lvl, cfg) ==
    R(TrailingCommaDoc(cfg) \o HardIndent(lvl, cfg), lvl, <<>>)

format_token_with_newline(text, lvl, cfg) ==
    IF Find(text, "#") # 0
    THEN R(TrailingCommaDoc(cfg) \o <<" ">>
               \o TrimEnd(SubSeq(text, Find(text, "#"), Len(text)))
               \o HardIndent(lvl, cfg),
           lvl, <<>>)
    ELSE R(HardIndent(lvl, cfg), lvl, <<>>)

format_collection_token(toks, k, lvl, cfg) ==
    LET text == toks[k].text
        trimmed == Trim(text)
        has_newline == Contains(text, NL)
    IN IF trimmed \in Brackets(TRUE)
       THEN format_collection_open(toks, k, trimmed, has_newline, lvl, cfg)
       ELSE IF trimmed \in Brackets(FALSE)
       THEN format_collection_close(trimmed, has_newline, lvl, cfg)
       ELSE IF trimmed = <<":">> THEN R(<<":", " ">>, lvl, <<>>)
       ELSE IF trimmed = <<",">> THEN
           IF is_in_multiline_collection(toks, k)
           THEN R(<<",">> \o HardIndent(lvl, cfg), lvl, <<>>)
           ELSE R(<<",", " ">>, lvl, <<>>)
       ELSE IF EndsWith(trimmed, "}") \/ EndsWith(trimmed, "]")
       THEN format_collection_close_complex(trimmed, has_newline, lvl, cfg)
       ELSE IF has_newline /\ trimmed = <<>> THEN format_newline_separator(lvl, cfg)
       ELSE IF has_newline THEN format_token_with_newline(text, lvl, cfg)
       ELSE R(trimmed, lvl, <<>>)

format_string_token(text, lvl, cfg) ==
    R(convert_string_quotes(text, cfg.quote_style), lvl, <<>>)

\* The interp_depth a token leaves.
InterpAfter(token, depth) ==
    IF token.shape # "StringInterpolation" THEN depth
    ELSE IF StartsWith(token.text, "$") THEN depth + 1
    ELSE saturating_sub(depth, 1)

format_token(toks, k, lvl, cfg) ==
    LET token == toks[k]
    IN IF token.text = <<>> /\ token.shape = "Nothing" THEN R(<<>>, lvl, <<>>)
       ELSE IF token.shape = "StringInterpolation" THEN R(token.text, lvl, <<>>)
       ELSE IF token.shape \in {"Block", "Closure"} THEN format_block_token(toks, k, lvl, cfg)
       ELSE IF token.shape = "Pipe" THEN format_pipe_token(toks, k, lvl)
       ELSE IF token.shape \in {"Record", "List"}
       THEN format_collection_token(toks, k, lvl, cfg)
       ELSE IF token.shape = "String" THEN format_string_token(token.text, lvl, cfg)
       ELSE R(token.text, lvl, <<>>)

\* format_next on token k: the gap's document, then the token's.
format_next(toks, k, lvl, cfg) ==
    LET g == format_gap(toks[k].gap_before, lvl, cfg)
        t == format_token(toks, k, g.lvl, cfg)
    IN R(g.doc \o t.doc, t.lvl, g.trace \o t.trace)

-----------------------------------------------------------------------------
(* The inputs of a run: sources assembled from pieces.  A piece is a token *)
(* with the gap in front of it; the analyzer's span list is the list of    *)
(* the token's byte ranges, in order, which is what flatten_block yields.  *)

Piece(gap, text, shape) == [gap |-> gap, text |-> text, shape |-> shape]

RECURSIVE Assemble(_, _)
Assemble(pieces, acc) ==
    IF pieces = <<>> THEN acc
    ELSE LET p == Head(pieces)
             start == Len(acc.source) + Len(p.gap)
         IN Assemble(Tail(pieces),
                [source |-> acc.source \o p.gap \o p.text,
                 flattened |-> Append(acc.flattened,
                                  [start |-> start, end |-> start + Len(p.text),
                                   shape |-> p.shape])])

\* An input of format_source: the pieces, then a trailing gap no token covers.
Input(pieces, trailing, cfg) ==
    LET a == Assemble(pieces, [source |-> <<>>, flattened |-> <<>>])
    IN [source |-> a.source \o trailing, flattened |-> a.flattened,
        parse_errors |-> <<>>, config |-> cfg]

-----------------------------------------------------------------------------
(* format_source, one step per call of format_next.                        *)

NoResult == [kind |-> "none"]

Ok(text) == [kind |-> "Ok", text |-> text]

Err(error) == [kind |-> "Err", error |-> error]

NoStep == [depth_before |-> 0, lvl_before |-> 0, emitted |-> <<>>, read |-> <<>>]

IdlePre == [phase |-> "idle"]

IdleQuote == [phase |-> "idle"]

IdleLoad == [phase |-> "idle"]

IdleCli == [phase |-> "idle"]

InitFormat(in) ==
    /\ source = in.source
    /\ flattened = in.flattened
    /\ parse_errors = in.parse_errors
    /\ config = in.config
    /\ pc = "start"
    /\ tokens = <<>>
    /\ index = 0
    /\ interp_depth = 0
    /\ indent_level = 0
    /\ output = <<>>
    /\ result = NoResult
    /\ trace = <<>>
    /\ step = NoStep
    /\ first_pass = None
    /\ pre = IdlePre
    /\ quote = IdleQuote
    /\ load = IdleLoad
    /\ cli = IdleCli
    /\ engine = [phase |-> "idle"]

\* format_source up to Formatter::new: the syntax-error check, then
\* preprocess_tokens.
FormatSource ==
    /\ pc = "start"
    /\ LET syntax_error == find_syntax_error(parse_errors)
       IN IF syntax_error.some
          THEN /\ result' = Err(syntax_error.val)
               /\ pc' = "error"
               /\ tokens' = <<>>
          ELSE /\ result' = NoResult
               /\ pc' = "emit"
               /\ tokens' = preprocess_tokens(source, flattened)
    /\ index' = 0
    /\ interp_depth' = 0
    /\ indent_level' = 0
    /\ output' = <<>>
    /\ trace' = <<>>
    /\ step' = NoStep
    /\ UNCHANGED <<source, flattened, parse_errors, config, first_pass, pre, quote, load, cli, engine>>

\* One iteration of the loop of format_all.
FormatNext ==
    /\ pc = "emit"
    /\ index < Len(tokens)
    /\ LET k == index + 1
           r == format_next(tokens, k, indent_level, config)
       IN /\ index' = k
          /\ indent_level' = r.lvl
          /\ interp_depth' = InterpAfter(tokens[k], interp_depth)
          /\ output' = output \o r.doc
          /\ trace' = r.trace
          /\ step' = [depth_before |-> interp_depth, lvl_before |-> indent_level,
                      emitted |-> r.doc,
                      read |-> tokens[k].gap_before \o tokens[k].text]
    /\ UNCHANGED <<source, flattened, parse_errors, config, pc, tokens, result,
                   first_pass, pre, quote, load, cli, engine>>

Finish_never_push ==
    /\ pc = "emit"
    /\ index = Len(tokens)
    /\ output' = output
    /\ result' = Ok(output')
    /\ pc' = "done"
    /\ UNCHANGED <<source, flattened, parse_errors, config, tokens, index,
                   interp_depth, indent_level, trace, step, first_pass, pre, quote, load, cli, engine>>

\* The end of format_tokens: render, ensure the trailing newline, return Ok.
Finish ==
    /\ pc = "emit"
    /\ index = Len(tokens)
    /\ output' = IF EndsWith(output, NL) THEN output ELSE Append(output, NL)
    /\ result' = Ok(output')
    /\ pc' = "done"
    /\ UNCHANGED <<source, flattened, parse_errors, config, tokens, index,
                   interp_depth, indent_level, trace, step, first_pass, pre, quote, load, cli, engine>>

Next == FormatSource \/ FormatNext \/ Finish

-----------------------------------------------------------------------------
(* Spec: format_source on sources assembled from blocks, collections,      *)
(* pipes, words and gaps, balanced or not.                                 *)

Word == <<"a">>

Pieces ==
    {Piece(<<>>, Word, "External"),
     Piece(<<" ">>, Word, "String"),
     Piece(<<NL, NL>>, Word, "External"),
     Piece(<<NL, "}", NL>>, Word, "External"),
     Piece(<<" ">>, <<"{", NL>>, "Block"),
     Piece(<<" ">>, <<"{">>, "Closure"),
     Piece(<<>>, <<NL, "}">>, "Block"),
     Piece(<<" ">>, <<"}">>, "Closure"),
     Piece(<<>>, <<",", NL, "}", NL, "}">>, "Block"),
     Piece(<<>>, <<"{", NL, "a", NL, "}">>, "Block"),
     Piece(<<>>, <<"(", NL>>, "Block"),
     Piece(<<>>, <<NL, ")">>, "Block"),
     Piece(<<>>, <<"[", NL>>, "List"),
     Piece(<<>>, <<NL, "]">>, "List"),
     Piece(<<>>, <<"|">>, "Pipe")}

TrailingGaps == {<<>>, <<NL>>, <<NL, NL>>}

NarrowConfig ==
    [indent_width |-> 4, max_width |-> 20, quote_style |-> "Single",
     bracket_spacing |-> "Compact", trailing_comma |-> "Never"]

Inputs ==
    {Input(ps, tr, cfg) : ps \in SeqsUpTo(Pieces, MaxPieces), tr \in TrailingGaps,
                          cfg \in {DefaultConfig, NarrowConfig}}

Init == \E in \in Inputs : InitFormat(in)

Spec == Init /\ [][Next]_vars

-----------------------------------------------------------------------------
(* SpecErr: format_source under every analyzer error list.                 *)

ErrorLists ==
    SeqsUpTo({[kind |-> k] : k \in ResolutionErrors \cup SyntaxErrors}, MaxErrors)

InitErr ==
    \E errs \in ErrorLists :
        InitFormat([Input(<<Piece(<<>>, Word, "External")>>, <<NL>>, DefaultConfig)
                       EXCEPT !.parse_errors = errs])

SpecErr == InitErr /\ [][Next]_vars

-----------------------------------------------------------------------------
(* SpecInterp: format_source on interpolated strings $"(...)" whose        *)
(* subexpression is assembled from phrases, under a narrow max_width.      *)

LongWord == Repeat("a", LongWordLen)

Phrases ==
    {<<Piece(<<" ">>, Word, "String")>>,
     <<Piece(<<" ", " ">>, Word, "String")>>,
     <<Piece(<<" ">>, <<SQ, "a", SQ>>, "String")>>,
     <<Piece(<<" ">>, <<"|">>, "Pipe"),
       Piece(<<" ">>, Word, "External")>>,
     <<Piece(<<" ">>, <<"{">>, "Record"),
       Piece(<<>>, Word, "String"),
       Piece(<<>>, <<":", " ">>, "Record"),
       Piece(<<>>, LongWord, "String"),
       Piece(<<>>, <<"}">>, "Record")>>}

InterpConfig == [DefaultConfig EXCEPT !.max_width = 20]

InterpInput(phrases) ==
    Input(<<Piece(<<>>, <<"$", DQ>>, "StringInterpolation"),
            Piece(<<>>, <<"(">>, "Block"),
            Piece(<<>>, Word, "External")>>
          \o Flatten(phrases)
          \o <<Piece(<<>>, <<")">>, "Block"),
               Piece(<<>>, <<DQ>>, "StringInterpolation")>>,
          <<NL>>, InterpConfig)

InitInterp == \E phrases \in SeqsUpTo(Phrases, MaxPhrases) : InitFormat(InterpInput(phrases))

SpecInterp == InitInterp /\ [][Next]_vars

-----------------------------------------------------------------------------
(* SpecIdem: format_source applied to a source of bare words, then to its  *)
(* own output.                                                             *)

\* parse then flatten_block on a source of bare words and whitespace: one
\* span per maximal run of non-whitespace characters, in source order.
RECURSIVE Analyze(_, _)
Analyze(src, from) ==
    IF from > Len(src) THEN <<>>
    ELSE IF IsWs(src[from]) THEN Analyze(src, from + 1)
    ELSE LET last == Min({j \in from..Len(src) : j = Len(src) \/ IsWs(src[j + 1])})
         IN <<[start |-> from - 1, end |-> last, shape |-> "External"]>>
                \o Analyze(src, last + 1)

InitIdem ==
    \E src \in SeqsUpTo({"a", " ", NL}, MaxIdemLen) :
        InitFormat([source |-> src, flattened |-> Analyze(src, 1),
                    parse_errors |-> <<>>, config |-> DefaultConfig])

\* The second call: format_source on the output of the first.
Reformat ==
    /\ pc = "done"
    /\ ~first_pass.some
    /\ first_pass' = Some(result.text)
    /\ source' = result.text
    /\ flattened' = Analyze(result.text, 1)
    /\ parse_errors' = <<>>
    /\ result' = NoResult
    /\ pc' = "start"
    /\ UNCHANGED <<config, tokens, index, interp_depth, indent_level, output,
                   trace, step, pre, quote, load, cli, engine>>

NextIdem == FormatSource \/ FormatNext \/ Finish \/ Reformat

SpecIdem == InitIdem /\ [][NextIdem]_vars

-----------------------------------------------------------------------------
(* SpecPre: preprocess_tokens alone, one loop iteration per step, under    *)
(* every span list over a short source, malformed spans included.          *)

SourceText == <<"a", "b", "c", "d", "e", "f">>

SpanLists ==
    SeqsUpTo({[start |-> b, end |-> e, shape |-> "External"] :
                  b \in 0..(MaxSrcLen + 1), e \in 0..(MaxSrcLen + 1)},
             MaxSpans)

IdleEmitter ==
    /\ parse_errors = <<>>
    /\ config = DefaultConfig
    /\ pc = "idle"
    /\ tokens = <<>>
    /\ index = 0
    /\ interp_depth = 0
    /\ indent_level = 0
    /\ output = <<>>
    /\ result = NoResult
    /\ trace = <<>>
    /\ step = NoStep
    /\ first_pass = None
    /\ load = IdleLoad
    /\ cli = IdleCli
    /\ engine = [phase |-> "idle"]

InitPre ==
    /\ \E n \in 0..MaxSrcLen : source = SubSeq(SourceText, 1, n)
    /\ flattened \in SpanLists
    /\ pre = [phase |-> "loop", i |-> 0, tokens |-> <<>>, last_end |-> 0,
              prev_end |-> 0, emitted |-> FALSE, accepted |-> <<>>]
    /\ quote = IdleQuote
    /\ IdleEmitter

\* The body of `for (span, shape) in flattened`, on the next pair.
PreprocessStep ==
    /\ pre.phase = "loop"
    /\ pre.i < Len(flattened)
    /\ LET pair == flattened[pre.i + 1]
           st == PreprocessPair(source, pair,
                                [tokens |-> pre.tokens, last_end |-> pre.last_end])
       IN pre' = [phase |-> "loop", i |-> pre.i + 1, tokens |-> st.tokens,
                  last_end |-> st.last_end, prev_end |-> pre.last_end,
                  emitted |-> Len(st.tokens) > Len(pre.tokens),
                  accepted |-> IF Len(st.tokens) > Len(pre.tokens)
                               THEN Append(pre.accepted, pair) ELSE pre.accepted]
    /\ UNCHANGED <<source, flattened, parse_errors, config, pc, tokens, index,
                   interp_depth, indent_level, output, result, trace, step,
                   first_pass, quote, load, cli, engine>>

\* After the loop: the synthetic trailing token, and the return.
PreprocessFinish ==
    /\ pre.phase = "loop"
    /\ pre.i = Len(flattened)
    /\ pre' = [pre EXCEPT !.phase = "returned",
                          !.tokens = PreprocessTail(source,
                                         [tokens |-> pre.tokens,
                                          last_end |-> pre.last_end])]
    /\ UNCHANGED <<source, flattened, parse_errors, config, pc, tokens, index,
                   interp_depth, indent_level, output, result, trace, step,
                   first_pass, quote, load, cli, engine>>

NextPre == PreprocessStep \/ PreprocessFinish

SpecPre == InitPre /\ [][NextPre]_vars

-----------------------------------------------------------------------------
(* SpecQuote: convert_string_quotes on every short text over quotes,       *)
(* backslash and a letter, under every quote style.                        *)

QuoteAlphabet == {DQ, SQ, BS, "a"}

InitQuote ==
    /\ \E text \in SeqsUpTo(QuoteAlphabet, MaxStrLen), style \in QuoteStyles :
           quote = [phase |-> "call", text |-> text, style |-> style, out |-> <<>>]
    /\ source = <<>>
    /\ flattened = <<>>
    /\ pre = IdlePre
    /\ IdleEmitter

ConvertQuotes ==
    /\ quote.phase = "call"
    /\ quote' = [quote EXCEPT !.phase = "returned",
                              !.out = convert_string_quotes(quote.text, quote.style)]
    /\ UNCHANGED <<source, flattened, parse_errors, config, pc, tokens, index,
                   interp_depth, indent_level, output, result, trace, step,
                   first_pass, pre, load, cli, engine>>

NextQuote == ConvertQuotes

SpecQuote == InitQuote /\ [][NextQuote]_vars

-----------------------------------------------------------------------------
(* Properties of format_source's error handling (SpecErr).                 *)

\* C6: format_source returns an error exactly when the analyzer's error
\* list holds an error that is not a resolution error, the error returned is
\* the first such error in list order, and when every error is a resolution
\* error formatting proceeds and returns Ok.
C6_ErrorIffSyntaxError ==
    LET resolution ==
            {"VariableNotFound", "ModuleNotFound", "ModuleOrOverlayNotFound",
             "ActiveOverlayNotFound", "ExportNotFound", "FileNotFound",
             "SourcedFileNotFound", "RegisteredFileNotFound", "PluginNotFound",
             "UnknownCommand", "ExtraPositional", "InputMismatch"}
        fatal == {i \in 1..Len(parse_errors) : parse_errors[i].kind \notin resolution}
    IN /\ pc = "error" => fatal # {} /\ result = Err(parse_errors[Min(fatal)])
       /\ pc \in {"emit", "done"} => fatal = {}
       /\ pc = "done" => result.kind = "Ok"
       /\ pc \in {"error", "done"} <=> result # NoResult

\* A resolution error precedes two syntax errors, and the first of the two
\* was returned.
C6_Witness_FirstSyntaxError ==
    /\ pc = "error"
    /\ Len(parse_errors) = 3
    /\ parse_errors[1].kind = "InputMismatch"
    /\ parse_errors[2].kind = "Unclosed"
    /\ parse_errors[3].kind = "Expected"
    /\ result = Err([kind |-> "Unclosed"])

-----------------------------------------------------------------------------
(* Properties of preprocess_tokens (SpecPre).                              *)

\* C7: the preprocessor emits a token for a pair if and only if
\* span.start >= previous_end, span.start <= span.end and
\* span.end <= |source|; every other pair is dropped, so the spans of the
\* emitted tokens lie in the source, do not overlap and do not decrease.
C7_EmitIffWellFormed ==
    /\ pre.i > 0 =>
           LET pair == flattened[pre.i]
           IN pre.emitted <=> /\ pair.start >= pre.prev_end
                              /\ pair.start <= pair.end
                              /\ pair.end <= Len(source)
    /\ Len(pre.tokens) = Len(pre.accepted) + (IF pre.phase = "returned" /\ pre.last_end < Len(source) THEN 1 ELSE 0)
    /\ \A i \in 1..Len(pre.accepted) :
           /\ pre.accepted[i].start <= pre.accepted[i].end
           /\ pre.accepted[i].end <= Len(source)
           /\ pre.tokens[i].text = SubSeq(source, pre.accepted[i].start + 1, pre.accepted[i].end)
    /\ \A i, j \in 1..Len(pre.accepted) :
           i < j => pre.accepted[i].end <= pre.accepted[j].start

\* A pair that is in bounds and not reversed was dropped for overlapping the
\* token emitted before it.
C7_Witness_OverlapDropped ==
    /\ pre.i = 2
    /\ ~pre.emitted
    /\ Len(pre.accepted) = 1
    /\ flattened[2].start < pre.prev_end
    /\ flattened[2].start <= flattened[2].end
    /\ flattened[2].end <= Len(source)

\* C8: concatenating gap_before then text of every token of the returned
\* vector, in order, reproduces the source; the synthetic trailing token is
\* appended exactly when previous_end < |source|, with empty text.
C8_TokensCoverSource ==
    LET pieces(toks) == [i \in 1..Len(toks) |-> toks[i].gap_before \o toks[i].text]
        synthetic == Len(pre.tokens) > Len(pre.accepted)
    IN /\ pre.phase = "loop" =>
              Flatten(pieces(pre.tokens)) = SubSeq(source, 1, pre.last_end)
       /\ pre.phase = "returned" =>
              /\ Flatten(pieces(pre.tokens)) = source
              /\ synthetic <=> pre.last_end < Len(source)
              /\ synthetic => /\ pre.tokens[Len(pre.tokens)].text = <<>>
                              /\ Len(pre.tokens) = Len(pre.accepted) + 1

\* A pair was dropped, a token was emitted, and source remained after it.
C8_Witness_TrailingToken ==
    /\ pre.phase = "returned"
    /\ Len(flattened) = 2
    /\ Len(pre.accepted) = 1
    /\ pre.accepted[1].start > 0
    /\ pre.last_end < Len(source)
    /\ Len(pre.tokens) = 2

-----------------------------------------------------------------------------
(* Properties of convert_string_quotes (SpecQuote).                        *)

\* C9: Preserve returns the text unchanged; for target double, text
\* starting with '"' is unchanged, text '...' whose inner content holds
\* neither '"' nor a backslash becomes "...", anything else is unchanged;
\* target single is the same with the quote characters swapped.
C9_CanonicalizeRules ==
    quote.phase = "returned" =>
        LET text == quote.text
            target == IF quote.style = "Double" THEN DQ ELSE SQ
            other == IF quote.style = "Double" THEN SQ ELSE DQ
            expected ==
                IF quote.style = "Preserve" THEN text
                ELSE IF Len(text) >= 1 /\ text[1] = target THEN text
                ELSE IF /\ Len(text) >= 2
                        /\ text[1] = other
                        /\ text[Len(text)] = other
                        /\ \A i \in 2..(Len(text) - 1) : text[i] \notin {target, BS}
                     THEN <<target>> \o SubSeq(text, 2, Len(text) - 1) \o <<target>>
                ELSE text
        IN quote.out = expected

\* A single-quoted literal was converted to double quotes, and one holding a
\* backslash would not be: the state is the converted one.
C9_Witness_Converted ==
    /\ quote.phase = "returned"
    /\ quote.style = "Double"
    /\ quote.text = <<SQ, "a", "a", SQ>>
    /\ quote.out = <<DQ, "a", "a", DQ>>

\* C10: whenever the conversion returns a string different from its input,
\* only the first and the last character (the quotes) differ and the inner
\* content is identical.
C10_OnlyQuotesChange ==
    (quote.phase = "returned" /\ quote.out # quote.text) =>
        /\ Len(quote.out) = Len(quote.text)
        /\ Len(quote.text) >= 2
        /\ SubSeq(quote.out, 2, Len(quote.out) - 1)
               = SubSeq(quote.text, 2, Len(quote.text) - 1)
        /\ {quote.text[1], quote.text[Len(quote.text)]} \subseteq {DQ, SQ}
        /\ {quote.out[1], quote.out[Len(quote.out)]} \subseteq {DQ, SQ}

\* A double-quoted literal with inner content came back single-quoted.
C10_Witness_Changed ==
    /\ quote.phase = "returned"
    /\ quote.style = "Single"
    /\ quote.out # quote.text
    /\ Len(quote.text) = 4
    /\ quote.out[1] = SQ

-----------------------------------------------------------------------------
(* Properties of the emitter (Spec, SpecInterp).                           *)

\* C1: for every source that parses and every valid configuration,
\* format(format(s, c), c) = format(s, c).
C1_Idempotent ==
    (pc = "done" /\ first_pass.some) => result.text = first_pass.val

\* C2: every successful format's output ends with exactly one '\n', never
\* zero and never two or more, also when the source ends with blank lines.
C2_ExactlyOneTrailingNewline ==
    pc = "done" =>
        /\ result.kind = "Ok"
        /\ EndsWith(result.text, NL)
        /\ ~(Len(result.text) >= 2 /\ result.text[Len(result.text) - 1] = NL)

\* C3: for every token sequence, unbalanced closers, multi-close
\* composites and structural gaps included, indent_level is never negative,
\* neither after a token nor at any assignment made while formatting it.
C3_IndentNeverNegative ==
    /\ indent_level >= 0
    /\ \A i \in 1..Len(trace) : trace[i] >= 0

\* A closing brace on a line of its own was formatted at indent level 0.
C3_Witness_CloserAtZero ==
    /\ pc = "emit"
    /\ index > 0
    /\ tokens[index].text = <<NL, "}">>
    /\ step.lvl_before = 0
    /\ trace = <<0>>
    /\ indent_level = 0

\* C4: a StringInterpolation token starting with '$' increments
\* interp_depth, any other decrements it saturating at 0, no other token
\* changes it; and while interp_depth > 0 a token's output holds no line
\* break that its source (gap and text) does not hold.
C4_NoBreakInsideInterpolation ==
    (pc \in {"emit", "done"} /\ index > 0) =>
        LET token == tokens[index]
        IN /\ interp_depth =
                  IF token.shape # "StringInterpolation" THEN step.depth_before
                  ELSE IF token.text[1] = "$" THEN step.depth_before + 1
                  ELSE IF step.depth_before = 0 THEN 0
                  ELSE step.depth_before - 1
           /\ step.depth_before > 0 =>
                  CountChar(step.emitted, NL) <= CountChar(step.read, NL)

\* C5: for every matching pair of interpolation delimiters, the source
\* between them (tokens and the gaps between them) occurs unchanged in the
\* output.
C5_InterpolationPreserved ==
    pc = "done" =>
        LET IsInterp(k) == tokens[k].shape = "StringInterpolation"
            Opens(k) == IsInterp(k) /\ StartsWith(tokens[k].text, "$")
            Closes(k) == IsInterp(k) /\ ~StartsWith(tokens[k].text, "$")
            Balance(i, m) ==
                Cardinality({k \in i..m : Opens(k)}) - Cardinality({k \in i..m : Closes(k)})
            Matching(i, j) ==
                /\ i < j
                /\ Opens(i)
                /\ Closes(j)
                /\ Balance(i, j) = 0
                /\ \A m \in i..(j - 1) : Balance(i, m) > 0
            Between(i, j) ==
                Flatten([k \in 1..(j - i - 1) |->
                            tokens[i + k].gap_before \o tokens[i + k].text])
                    \o tokens[j].gap_before
        IN \A i, j \in 1..Len(tokens) :
               Matching(i, j) => ContainsStr(result.text, Between(i, j))

-----------------------------------------------------------------------------
(* SpecConfig: load_config_file (nufmt-cli) on a configuration file whose  *)
(* values lie around the limits of Config::validate.                       *)

IndentWidths == 0..(MaxIndentWidth + WidthSlack)

MaxWidths ==
    ((MinMaxWidth - WidthSlack)..(MinMaxWidth + WidthSlack))
        \cup ((MaxMaxWidth - WidthSlack)..(MaxMaxWidth + WidthSlack))
        \cup {DefaultConfig.max_width}

ConfigFiles ==
    {[readable |-> TRUE, parses |-> TRUE,
      values |-> [DefaultConfig EXCEPT !.indent_width = iw, !.max_width = mw]] :
          iw \in IndentWidths, mw \in MaxWidths}
        \cup {[readable |-> r, parses |-> p, values |-> DefaultConfig] :
                  r \in BOOLEAN, p \in BOOLEAN}

LoadOk(cfg) == [kind |-> "Ok", config |-> cfg]

LoadErr(why) == [kind |-> "Err", source |-> why]

\* fs::read_to_string, toml::from_str, Config::validate, each with `?`.
load_config_file(file) ==
    IF ~file.readable THEN LoadErr("read")
    ELSE IF ~file.parses THEN LoadErr("toml")
    ELSE IF ~validate(file.values).ok THEN LoadErr(validate(file.values).message)
    ELSE LoadOk(file.values)

InitConfig ==
    /\ \E file \in ConfigFiles : load = [phase |-> "call", file |-> file]
    /\ source = <<>>
    /\ flattened = <<>>
    /\ parse_errors = <<>>
    /\ config = DefaultConfig
    /\ pc = "idle"
    /\ tokens = <<>>
    /\ index = 0
    /\ interp_depth = 0
    /\ indent_level = 0
    /\ output = <<>>
    /\ result = NoResult
    /\ trace = <<>>
    /\ step = NoStep
    /\ first_pass = None
    /\ pre = IdlePre
    /\ quote = IdleQuote
    /\ cli = IdleCli
    /\ engine = [phase |-> "idle"]

LoadConfigFile ==
    /\ load.phase = "call"
    /\ load' = [phase |-> "returned", file |-> load.file,
                validated |-> IF load.file.readable /\ load.file.parses
                              THEN Some(validate(load.file.values)) ELSE None,
                result |-> load_config_file(load.file)]
    /\ config' = IF load_config_file(load.file).kind = "Ok"
                 THEN load_config_file(load.file).config ELSE config
    /\ UNCHANGED <<source, flattened, parse_errors, pc, tokens, index,
                   interp_depth, indent_level, output, result, trace, step,
                   first_pass, pre, quote, cli, engine>>

NextConfig == LoadConfigFile

SpecConfig == InitConfig /\ [][NextConfig]_vars

\* C11: Config::validate returns Ok if and only if 1 <= indent_width <= 16
\* and 20 <= max_width <= 500; otherwise it returns a ConfigError and the
\* file's configuration is not used; the default configuration
\* (indent_width = 2, max_width = 100) validates.
C11_ValidateRanges ==
    /\ DefaultConfig.indent_width = 2
    /\ DefaultConfig.max_width = 100
    /\ validate(DefaultConfig).ok
    /\ (load.phase = "returned" /\ load.validated.some) =>
           LET v == load.file.values
               in_range == /\ 1 <= v.indent_width /\ v.indent_width <= 16
                           /\ 20 <= v.max_width /\ v.max_width <= 500
           IN /\ load.validated.val.ok <=> in_range
              /\ in_range => load.result = LoadOk(v) /\ config = v
              /\ ~in_range => load.result.kind = "Err" /\ config = DefaultConfig

\* A file with max_width one below the limit was rejected, all else valid.
C11_Witness_Rejected ==
    /\ load.phase = "returned"
    /\ load.file.values.indent_width = 16
    /\ load.file.values.max_width = 19
    /\ load.result.kind = "Err"

-----------------------------------------------------------------------------
(* format_source as one function, for callers that use only its result.    *)

\* The loop of format_all from token k on.  Each intermediate value is bound
\* once (CHOOSE over a singleton) so that it is computed once.
RECURSIVE format_all(_, _, _, _)
format_all(toks, k, lvl, cfg) ==
    IF k > Len(toks) THEN <<>>
    ELSE CHOOSE doc \in {r.doc \o format_all(toks, k + 1, r.lvl, cfg) :
                            r \in {format_next(toks, k, lvl, cfg)}} : TRUE

format_tokens(src, flat, cfg) ==
    CHOOSE text \in
        {IF EndsWith(rendered, NL) THEN rendered ELSE Append(rendered, NL) :
             rendered \in {format_all(toks, 1, 0, cfg) :
                              toks \in {preprocess_tokens(src, flat)}}} : TRUE

\* On sources of bare words, whitespace and '(': an unclosed '(' is the
\* analyzer's one syntax error, anything else parses.
format_source(src, cfg) ==
    LET errors == IF Contains(src, "(") THEN <<[kind |-> "Unclosed"]>> ELSE <<>>
        syntax_error == find_syntax_error(errors)
    IN IF syntax_error.some THEN Err(syntax_error.val)
       ELSE Ok(format_tokens(src, Analyze(src, 1), cfg))

-----------------------------------------------------------------------------
(* SpecCli: one run of the nufmt process (nufmt-cli/src/main.rs).          *)

\* A file on disk: its content now, its content before the run, whether it
\* can be read and written, what format_file made of it, and how often it
\* was written.
Files ==
    {[content |-> c, orig |-> c, readable |-> r, writable |-> w,
      result |-> "Pending", writes |-> 0] :
         c \in {<<"a", NL>>, <<"a">>, <<"a", " ", " ", "a", NL>>, <<"(">>},
         r \in BOOLEAN, w \in BOOLEAN}

ConfigFileKinds ==
    [none |-> None,
     valid |-> Some([readable |-> TRUE, parses |-> TRUE, values |-> NarrowConfig]),
     invalid |-> Some([readable |-> TRUE, parses |-> TRUE,
                       values |-> [DefaultConfig EXCEPT !.indent_width = 0]]),
     unreadable |-> Some([readable |-> FALSE, parses |-> TRUE, values |-> DefaultConfig])]

\* Args::parse() and the environment the run meets.
CliStart(command, force, check, stdin, debug_tokens, patterns, env) ==
    [phase |-> "start", command |-> command, force |-> force, check |-> check,
     stdin |-> stdin, debug_tokens |-> debug_tokens, patterns |-> patterns,
     env |-> env, files |-> <<>>, changed |-> 0, errors |-> 0,
     error |-> FALSE, would_change |-> FALSE, exit_code |-> None]

CliEnv(config_file, dotfile_exists, dotfile_writable, stdin_text, glob_ok, files) ==
    [config_file |-> config_file, dotfile_exists |-> dotfile_exists,
     dotfile_writable |-> dotfile_writable, stdin_text |-> stdin_text,
     glob_ok |-> glob_ok, files |-> files]

CliRuns ==
    {CliStart("init", force, check, FALSE, FALSE, FALSE,
              CliEnv("none", exists, writable, None, TRUE, <<>>)) :
         force \in BOOLEAN, check \in BOOLEAN, exists \in BOOLEAN, writable \in BOOLEAN}
    \cup
    {CliStart("none", FALSE, check, stdin, TRUE, FALSE,
              CliEnv("none", FALSE, TRUE, text, TRUE, <<>>)) :
         check \in BOOLEAN, stdin \in BOOLEAN, text \in {None, Some(<<"a">>)}}
    \cup
    {CliStart("none", FALSE, check, TRUE, FALSE, FALSE,
              CliEnv(kind, FALSE, TRUE, text, TRUE, <<>>)) :
         check \in BOOLEAN, kind \in DOMAIN ConfigFileKinds,
         text \in {None} \cup {Some(f.orig) : f \in Files}}
    \cup
    {CliStart("none", FALSE, check, FALSE, FALSE, TRUE,
              CliEnv(kind, FALSE, TRUE, None, TRUE, files)) :
         check \in BOOLEAN, kind \in {"none", "valid"},
         files \in SeqsUpTo(Files, MaxFiles)}
    \cup
    {CliStart("none", FALSE, check, FALSE, FALSE, patterns,
              CliEnv(kind, FALSE, TRUE, None, glob_ok, files)) :
         check \in BOOLEAN, patterns \in BOOLEAN, kind \in DOMAIN ConfigFileKinds,
         glob_ok \in BOOLEAN, files \in SeqsUpTo(Files, 1)}

InitCli ==
    /\ cli \in CliRuns
    /\ source = <<>>
    /\ flattened = <<>>
    /\ pre = IdlePre
    /\ quote = IdleQuote
    /\ parse_errors = <<>>
    /\ config = DefaultConfig
    /\ pc = "idle"
    /\ tokens = <<>>
    /\ index = 0
    /\ interp_depth = 0
    /\ indent_level = 0
    /\ output = <<>>
    /\ result = NoResult
    /\ trace = <<>>
    /\ step = NoStep
    /\ first_pass = None
    /\ load = IdleLoad
    /\ engine = [phase |-> "idle"]

CliUnchanged ==
    UNCHANGED <<source, flattened, parse_errors, pc, tokens, index, interp_depth,
                indent_level, output, result, trace, step, first_pass, pre,
                quote, load, engine>>

\* return ExitCode::from(code)
Exit(c, code, failed) ==
    [c EXCEPT !.phase = "exited", !.exit_code = Some(code), !.error = failed]

\* run_init: an existing .nufmt.toml without --force is reported as an
\* error and exits 1; a failed write exits 2.
RunInit ==
    /\ cli.phase = "start"
    /\ cli.command = "init"
    /\ cli' = IF cli.env.dotfile_exists /\ ~cli.force THEN Exit(cli, 1, TRUE)
              ELSE IF ~cli.env.dotfile_writable THEN Exit(cli, 2, TRUE)
              ELSE Exit([cli EXCEPT !.env.dotfile_exists = TRUE], 0, FALSE)
    /\ UNCHANGED config
    /\ CliUnchanged

\* --debug-tokens: read stdin, print the tokens.
DebugTokens ==
    /\ cli.phase = "start"
    /\ cli.command = "none"
    /\ cli.debug_tokens
    /\ cli' = IF ~cli.env.stdin_text.some THEN Exit(cli, 2, TRUE) ELSE Exit(cli, 0, FALSE)
    /\ UNCHANGED config
    /\ CliUnchanged

\* load_config: the file if there is one, the defaults otherwise.
LoadConfig ==
    /\ cli.phase = "start"
    /\ cli.command = "none"
    /\ ~cli.debug_tokens
    /\ LET file == ConfigFileKinds[cli.env.config_file]
           loaded == IF file.some THEN load_config_file(file.val) ELSE LoadOk(DefaultConfig)
       IN IF loaded.kind = "Err"
          THEN cli' = Exit(cli, 2, TRUE) /\ UNCHANGED config
          ELSE cli' = [cli EXCEPT !.phase = "loaded"] /\ config' = loaded.config
    /\ CliUnchanged

\* format_stdin and the exit code main derives from it.
FormatStdin ==
    /\ cli.phase = "loaded"
    /\ cli.stdin
    /\ LET text == cli.env.stdin_text
       IN IF ~text.some THEN cli' = Exit(cli, 2, TRUE)
          ELSE \E formatted \in {format_source(text.val, config)} :
                   cli' = IF formatted.kind = "Err" THEN Exit(cli, 2, TRUE)
                          ELSE LET c == [cli EXCEPT
                                            !.would_change = (text.val # formatted.text)]
                               IN IF cli.check /\ c.would_change THEN Exit(c, 1, FALSE)
                                  ELSE Exit(c, 0, FALSE)
    /\ UNCHANGED config
    /\ CliUnchanged

\* expand_patterns, and main's early returns around it.
ExpandPatterns ==
    /\ cli.phase = "loaded"
    /\ ~cli.stdin
    /\ cli' = IF ~cli.patterns THEN Exit(cli, 0, FALSE)
              ELSE IF ~cli.env.glob_ok \/ cli.env.files = <<>> THEN Exit(cli, 2, TRUE)
              ELSE [cli EXCEPT !.phase = "files", !.files = cli.env.files]
    /\ UNCHANGED config
    /\ CliUnchanged

\* What format_file does with a readable file once format_source returned.
WriteBack(file, check, formatted) ==
    IF formatted.kind = "Err" THEN [file EXCEPT !.result = "Error"]
    ELSE LET would_change == (file.content # formatted.text)
             verdict == IF would_change THEN "Changed" ELSE "Unchanged"
         IN IF check \/ ~would_change THEN [file EXCEPT !.result = verdict]
            ELSE IF ~file.writable THEN [file EXCEPT !.result = "Error"]
            ELSE [file EXCEPT !.content = formatted.text,
                              !.writes = file.writes + 1,
                              !.result = verdict]

format_file_always_write(file, check, cfg) ==
    IF ~file.readable THEN [file EXCEPT !.result = "Error"]
    ELSE CHOOSE done \in
             {IF check \/ formatted.kind = "Err" \/ ~file.writable
              THEN WriteBack(file, check, formatted)
              ELSE [file EXCEPT !.content = formatted.text,
                                !.writes = file.writes + 1,
                                !.result = IF file.content # formatted.text
                                           THEN "Changed" ELSE "Unchanged"] :
                  formatted \in {format_source(file.content, cfg)}} : TRUE

\* format_file, with Ok(true) as "Changed", Ok(false) as "Unchanged" and
\* Err as "Error".
format_file(file, check, cfg) ==
    IF ~file.readable THEN [file EXCEPT !.result = "Error"]
    ELSE CHOOSE done \in {WriteBack(file, check, formatted) :
                             formatted \in {format_source(file.content, cfg)}} : TRUE

\* One closure of files.par_iter().map(..): format_file on a file no
\* worker has taken yet, then fetch_add on the matching counter.
FormatFile_errors_as_changed ==
    /\ cli.phase = "files"
    /\ \E i \in 1..Len(cli.files) :
           /\ cli.files[i].result = "Pending"
           /\ \E done \in {format_file(cli.files[i], cli.check, config)} :
                  cli' = [cli EXCEPT
                            !.files[i] = done,
                            !.changed = IF done.result # "Unchanged" THEN @ + 1 ELSE @,
                            !.errors = IF done.result = "Error" THEN @ + 1 ELSE @,
                            !.would_change = @ \/ done.result = "Changed",
                            !.error = @ \/ done.result = "Error"]
    /\ UNCHANGED config
    /\ CliUnchanged

FormatFile ==
    /\ cli.phase = "files"
    /\ \E i \in 1..Len(cli.files) :
           /\ cli.files[i].result = "Pending"
           /\ \E done \in {format_file(cli.files[i], cli.check, config)} :
                  cli' = [cli EXCEPT
                            !.files[i] = done,
                            !.changed = IF done.result = "Changed" THEN @ + 1 ELSE @,
                            !.errors = IF done.result = "Error" THEN @ + 1 ELSE @,
                            !.would_change = @ \/ done.result = "Changed",
                            !.error = @ \/ done.result = "Error"]
    /\ UNCHANGED config
    /\ CliUnchanged

\* After collect(): the summary and the exit code.
Summary ==
    /\ cli.phase = "files"
    /\ \A i \in 1..Len(cli.files) : cli.files[i].result # "Pending"
    /\ cli' = IF cli.errors > 0 THEN Exit(cli, 2, cli.error)
              ELSE IF cli.check /\ cli.changed > 0 THEN Exit(cli, 1, cli.error)
              ELSE Exit(cli, 0, cli.error)
    /\ UNCHANGED config
    /\ CliUnchanged

NextCli ==
    \/ RunInit
    \/ DebugTokens
    \/ LoadConfig
    \/ FormatStdin
    \/ ExpandPatterns
    \/ FormatFile
    \/ Summary

SpecCli == InitCli /\ [][NextCli]_vars

\* C12: the exit code is 0 on success, 1 only in --check mode when at
\* least one input would change and no error occurred, and 2 on any error;
\* an error takes precedence over "would change".
C12_ExitCodes ==
    cli.phase = "exited" =>
        /\ cli.exit_code.val = 2 <=> cli.error
        /\ cli.exit_code.val = 1 <=> (~cli.error /\ cli.check /\ cli.would_change)
        /\ cli.exit_code.val = 0 <=> (~cli.error /\ ~(cli.check /\ cli.would_change))
        /\ cli.exit_code.val = 1 =>
               /\ cli.command = "none"
               /\ cli.check
               /\ \/ cli.stdin
                  \/ \E i \in 1..Len(cli.files) : cli.files[i].result = "Changed"

-----------------------------------------------------------------------------
\* C14: an empty token vector, which is what the empty source gives, is no
\* error, and the output is exactly a single newline.
C14_EmptySourceSingleNewline ==
    /\ (pc \in {"emit", "done"} /\ source = <<>>) => tokens = <<>>
    /\ (pc = "done" /\ tokens = <<>>) => result = Ok(<<NL>>)

\* format_source returned for the empty source.
C14_Witness_EmptySource ==
    /\ pc = "done"
    /\ source = <<>>
    /\ tokens = <<>>
    /\ output = <<NL>>

-----------------------------------------------------------------------------
(* SpecPipe: format_source on pipelines of up to MaxStages commands, with  *)
(* the max_width of test_long_pipeline_break and with the default one.     *)

PipeWidth == 25

\* The commands of "ls | sort-by name | first 10 | reverse", repeated in
\* that order for longer pipelines; gap is the text after the pipe.
Stage(i, gap) ==
    LET n == ((i - 1) % 4) + 1
    IN IF n = 1 THEN <<Piece(gap, <<"l", "s">>, "InternalCall")>>
       ELSE IF n = 2
       THEN <<Piece(gap, <<"s", "o", "r", "t", "-", "b", "y">>, "InternalCall"),
              Piece(<<" ">>, <<"n", "a", "m", "e">>, "String")>>
       ELSE IF n = 3
       THEN <<Piece(gap, <<"f", "i", "r", "s", "t">>, "InternalCall"),
              Piece(<<" ">>, <<"1", "0">>, "Int")>>
       ELSE <<Piece(gap, <<"r", "e", "v", "e", "r", "s", "e">>, "InternalCall")>>

PipeGaps ==
    {[before |-> <<" ">>, after |-> <<" ">>],
     [before |-> <<>>, after |-> <<>>],
     [before |-> <<NL>>, after |-> <<" ">>]}

RECURSIVE Pipeline(_, _)
Pipeline(n, sep) ==
    IF n = 1 THEN Stage(1, <<>>)
    ELSE Pipeline(n - 1, sep) \o <<Piece(sep.before, <<"|">>, "Pipe")>> \o Stage(n, sep.after)

InitPipe ==
    \E n \in 1..MaxStages, sep \in PipeGaps, tr \in {<<>>, <<NL>>},
       w \in {PipeWidth, DefaultConfig.max_width} :
        InitFormat(Input(Pipeline(n, sep), tr, [DefaultConfig EXCEPT !.max_width = w]))

SpecPipe == InitPipe /\ [][Next]_vars

C16_LongPipelineBroken ==
    (/\ pc = "done"
     /\ ~Contains(TrimEnd(source), NL)
     /\ Contains(source, "|")
     /\ Len(TrimEnd(source)) > config.max_width) =>
        CountChar(result.text, NL) >= 2

-----------------------------------------------------------------------------
(* SpecColl: format_source on one record or list of up to MaxElems         *)
(* elements, written on one line or on several, alone or after a command   *)
(* that fills the line up to the narrow max_width.  The analyzer reports   *)
(* the text between the items of a collection, brackets included, as       *)
(* Record or List spans, and an empty collection as one span.              *)

\* One element: key, colon and value for a record, the value for a list.
Element(kind, long) ==
    LET value == IF long THEN Piece(<<>>, LongWord, "String")
                 ELSE Piece(<<>>, <<"1">>, "Int")
    IN IF kind = "Record"
       THEN <<Piece(<<>>, Word, "String"), Piece(<<>>, <<":", " ">>, kind), value>>
       ELSE <<value>>

\* n elements with sep between them; the last one holds the long value
\* when long is set.
RECURSIVE Elements(_, _, _, _)
Elements(kind, n, long, sep) ==
    IF n = 1 THEN Element(kind, long)
    ELSE Elements(kind, n - 1, FALSE, sep) \o <<Piece(<<>>, sep, kind)>> \o Element(kind, long)

Collection(kind, gap, open_ws, n, long, sep, close_ws) ==
    LET open == IF kind = "Record" THEN "{" ELSE "["
        close == IF kind = "Record" THEN "}" ELSE "]"
    IN IF n = 0 THEN <<Piece(gap, <<open>> \o open_ws \o <<close>>, kind)>>
       ELSE <<Piece(gap, <<open>> \o open_ws, kind)>>
                \o Elements(kind, n, long, sep)
                \o <<Piece(<<>>, close_ws \o <<close>>, kind)>>

CollConfigs ==
    {DefaultConfig, [DefaultConfig EXCEPT !.max_width = NarrowConfig.max_width],
     NarrowConfig, [NarrowConfig EXCEPT !.max_width = DefaultConfig.max_width]}

CollInputs ==
    {Input(prefix.pieces
               \o Collection(kind, prefix.gap, open_ws, n, long, sep, close_ws),
           <<NL>>, cfg) :
        prefix \in {[pieces |-> <<>>, gap |-> <<>>],
                    [pieces |-> <<Piece(<<>>, LongWord, "External")>>, gap |-> <<" ">>]},
        kind \in {"Record", "List"},
        open_ws \in {<<>>, <<" ">>, <<NL>>},
        n \in 0..MaxElems,
        long \in BOOLEAN,
        sep \in {<<",", " ">>, <<",", NL>>, <<NL>>},
        close_ws \in {<<>>, <<" ">>, <<NL>>, <<",", NL>>},
        cfg \in CollConfigs}

InitColl == \E in \in CollInputs : InitFormat(in)

SpecColl == InitColl /\ [][Next]_vars

\* C17: in a record or list written on several lines, with trailing_comma
\* always every element line of the output ends with exactly one comma (no
\* second one after a comma of the source, alone or in a closer ",\n}"),
\* and with never the formatter adds no comma to those of the source.
C17_TrailingCommas ==
    LET colls == {k \in 1..Len(tokens) : tokens[k].shape \in {"Record", "List"}}
        lines == SplitNl(TrimEnd(result.text))
    IN (/\ pc = "done"
        /\ Cardinality(colls) >= 2
        /\ Contains(tokens[Min(colls)].text, NL)
        /\ Contains(tokens[Max(colls)].text, NL)) =>
           /\ config.trailing_comma = "Always" =>
                  \A i \in 2..(Len(lines) - 1) :
                      /\ Len(lines[i]) >= 2
                      /\ lines[i][Len(lines[i])] = ","
                      /\ lines[i][Len(lines[i]) - 1] \notin {",", " "}
           /\ config.trailing_comma = "Never" =>
                  CountChar(result.text, ",") <= CountChar(source, ",")

\* C18: a record or list laid out on one line has exactly one space inside
\* each bracket with bracket_spacing spaced and none with compact, whatever
\* the spacing of the source, the empty collection included.
C18_BracketSpacing ==
    LET body == TrimEnd(result.text)
        open == Min({i \in 1..Len(body) : body[i] \in {"{", "["}})
        inside == SubSeq(body, open + 1, Len(body) - 1)
    IN (/\ pc = "done"
        /\ ~Contains(TrimEnd(source), NL)
        /\ ~Contains(body, NL)) =>
           /\ config.bracket_spacing = "Spaced" =>
                  \/ inside = <<" ">>
                  \/ /\ Len(inside) >= 3
                     /\ inside[1] = " " /\ inside[2] # " "
                     /\ inside[Len(inside)] = " " /\ inside[Len(inside) - 1] # " "
           /\ config.bracket_spacing = "Compact" =>
                  \/ inside = <<>>
                  \/ inside[1] # " " /\ inside[Len(inside)] # " "

\* C19: at a collection opener, force_multiline is source_multiline, or a
\* newline in a gap up to the closer, or current line position plus
\* estimated width exceeding max_width: the width test counts the column at
\* which the opener is emitted, not the estimated width alone.
C19_ForceMultilineCountsColumn ==
    (/\ pc = "emit"
     /\ index >= 1
     /\ tokens[index].shape \in {"Record", "List"}
     /\ Trim(tokens[index].text) \in Brackets(TRUE)) =>
        LET before == SubSeq(output, 1, Len(output) - Len(step.emitted))
                          \o format_gap(tokens[index].gap_before, step.lvl_before, config).doc
            lines == SplitNl(before)
            current_line_position == Len(lines[Len(lines)])
            est == estimate_collection_length(tokens, index)
            force_multiline == indent_level = step.lvl_before + 1
        IN force_multiline <=>
               \/ Contains(tokens[index].text, NL)
               \/ est.has_newline
               \/ current_line_position + est.length > config.max_width

\* C20: a collection closer is laid out as its matching opener was: after
\* an opener laid out multi-line for any reason (a newline of the source, a
\* newline in an inner gap, or the width) the closer emits the trailing
\* comma if trailing_comma is always, a hardline, the indent of the
\* decremented indent_level and the bracket; otherwise it is emitted inline.
C20_CloserFollowsOpener ==
    LET colls == {k \in 1..Len(tokens) : tokens[k].shape \in {"Record", "List"}}
    IN (/\ pc = "emit"
        /\ Cardinality(colls) >= 2
        /\ index = Max(colls)) =>
           LET opener_multiline ==
                   format_collection_token(tokens, Min(colls), 0, config).lvl = 1
               trimmed == Trim(tokens[index].text)
               closing == (IF config.trailing_comma = "Always" THEN <<",">> ELSE <<>>)
                              \o <<NL>> \o indent_str(indent_level, config)
                              \o <<trimmed[Len(trimmed)]>>
               emitted == step.emitted
           IN IF opener_multiline
              THEN /\ indent_level = step.lvl_before - 1
                   /\ Len(emitted) >= Len(closing)
                   /\ SubSeq(emitted, Len(emitted) - Len(closing) + 1, Len(emitted)) = closing
              ELSE /\ indent_level = step.lvl_before
                   /\ ~Contains(emitted, NL)

-----------------------------------------------------------------------------
\* C29: string canonicalization is idempotent for every token text and
\* every quote_style: converting the converted text again changes nothing,
\* also for a lone quote character or an unterminated literal.
C29_ConvertIdempotent ==
    quote.phase = "returned" =>
        convert_string_quotes(quote.out, quote.style) = quote.out

\* A double-quoted literal was rewritten with single quotes.
C29_Witness_Rewritten ==
    /\ quote.phase = "returned"
    /\ quote.style = "Single"
    /\ quote.text = <<DQ, "a", DQ>>
    /\ quote.out = <<SQ, "a", SQ>>

-----------------------------------------------------------------------------
\* C30: when the files are formatted in parallel every file yields exactly
\* one result, Changed, Unchanged or Error, and in every order of the
\* workers the changed counter equals the number of Changed results and the
\* errors counter the number of Error results, so changed + errors <= total
\* and the summary's total - changed - errors does not underflow.
C30_CountersMatchResults ==
    LET total == Len(cli.files)
        with(r) == Cardinality({i \in 1..total : cli.files[i].result = r})
    IN cli.phase \in {"files", "exited"} =>
           /\ cli.changed = with("Changed")
           /\ cli.errors = with("Error")
           /\ cli.changed + cli.errors <= total
           /\ total - cli.changed - cli.errors = with("Unchanged") + with("Pending")
           /\ \A i \in 1..total :
                  cli.files[i].result \in {"Pending", "Changed", "Unchanged", "Error"}
           /\ (cli.phase = "exited" /\ total > 0) => with("Pending") = 0

\* Of two files one was changed and one failed; both counters are 1 at the
\* summary.
C30_Witness_ChangedAndError ==
    /\ cli.phase = "exited"
    /\ Len(cli.files) = 2
    /\ cli.files[1].result = "Changed"
    /\ cli.files[2].result = "Error"
    /\ cli.changed = 1
    /\ cli.errors = 1

-----------------------------------------------------------------------------
\* C28: indent balance: once the emitter has processed a well-nested
\* sequence of tokens, in any single-line or multi-line layout, layouts
\* forced only by max_width included, indent_level is back at its value
\* before the sequence; at the end of a format call on a balanced token
\* stream indent_level is 0.
C28_IndentBalanced ==
    (/\ pc = "done"
     /\ CountChar(source, "{") = CountChar(source, "}")
     /\ CountChar(source, "[") = CountChar(source, "]")) =>
        indent_level = 0

-----------------------------------------------------------------------------
\* C23: for a multi-close composite block token (no opening brace, at
\* least two "}"), the content before the braces, such as a comma, also one
\* standing on a line of its own, is emitted, and then for each "}" in
\* order indent_level is decremented by one and the brace is emitted after
\* a hardline and the new indent, each brace one level shallower than the
\* one before it.
C23_MultiCloseEmitsPrefixAndBraces ==
    (/\ pc = "emit"
     /\ index >= 1
     /\ tokens[index].shape = "Block"
     /\ tokens[index].gap_before = <<>>
     /\ ~StartsWith(Trim(tokens[index].text), "{")
     /\ CountChar(tokens[index].text, "}") >= 2
     /\ step.lvl_before >= CountChar(tokens[index].text, "}")) =>
        LET text == tokens[index].text
            count == CountChar(text, "}")
            content == SelectSeq(text, LAMBDA c : ~IsWs(c) /\ c # "}")
            braces[j \in 0..count] ==
                IF j = 0 THEN <<>>
                ELSE braces[j - 1] \o HardIndent(step.lvl_before - j, config) \o <<"}">>
        IN /\ indent_level = step.lvl_before - count
           /\ step.emitted = content \o braces[count]

-----------------------------------------------------------------------------
(* SpecGap: format_source on two words separated by a gap of several       *)
(* lines (blank lines, braces and commas of a match expression, comments,  *)
(* a semicolon), at indent level 0 or inside a multi-line block.           *)

InitGap ==
    LET first_lines == {<<>>, <<" ">>, <<",">>, <<" ", "{">>}
        later_lines == {<<>>, <<"}">>, <<"}", ",">>, <<"{">>, <<"#", "c">>, <<";">>}
        gaps == {first \o Flatten([i \in 1..Len(rest) |-> <<NL>> \o rest[i]]) :
                    first \in first_lines,
                    rest \in SeqsUpTo(later_lines, MaxGapLines) \ {<<>>}}
        words(gap) == <<Piece(<<>>, Word, "External"), Piece(gap, Word, "External")>>
    IN \E gap \in gaps, nested \in BOOLEAN :
           InitFormat(Input(IF nested
                            THEN <<Piece(<<>>, <<"{", NL>>, "Block")>> \o words(gap)
                                     \o <<Piece(<<>>, <<NL, "}">>, "Block")>>
                            ELSE words(gap),
                            <<>>, DefaultConfig))

SpecGap == InitGap /\ [][Next]_vars

\* C24: in the structural-gap sub-procedure, on every line of the gap a "{"
\* increments indent_level after the line is emitted, so that the following
\* lines use the new level, and a "}" decrements indent_level before its
\* own emission, so that a closing brace is emitted at the indent of its
\* opener, also when the line carries other content besides the brace
\* ("},").
C24_StructuralGapBraceIndent ==
    LET gap == tokens[index].gap_before
        lines == SplitNl(gap)
        doc == SplitNl(format_gap(gap, step.lvl_before, config).doc)
        content(ls) == {i \in 1..Len(ls) : Trim(ls[i]) # <<>>}
        nth(ls, i) == Cardinality({j \in content(ls) : j <= i})
        emit_lvl(lvl, line) == saturating_sub(lvl, CountChar(line, "}"))
        lvl_after[i \in 0..Len(lines)] ==
            IF i = 0 THEN step.lvl_before
            ELSE emit_lvl(lvl_after[i - 1], lines[i]) + CountChar(lines[i], "{")
    IN (/\ pc = "emit"
        /\ index >= 1
        /\ Contains(gap, NL)
        /\ Contains(gap, "{") \/ Contains(gap, "}") \/ ContainsStr(gap, <<",", NL>>)
        /\ Cardinality(content(doc)) = Cardinality(content(lines))) =>
           /\ indent_level = lvl_after[Len(lines)]
           /\ \A i \in content(lines) \ {1} :
                  \E k \in content(doc) :
                      /\ nth(doc, k) = nth(lines, i)
                      /\ TrimEnd(doc[k]) =
                             indent_str(emit_lvl(lvl_after[i - 1], lines[i]), config)
                                 \o Trim(lines[i])

\* C25: blank lines inside a gap are preserved as exactly one blank line:
\* in the structural and in the general multi-line sub-procedure alike, a
\* run of one or more empty lines between two content lines, or before the
\* next token, yields exactly one empty line in the output, never zero and
\* never more than one.
C25_BlankRunsBecomeOneBlankLine ==
    LET gap == tokens[index].gap_before
        lines == SplitNl(gap)
        doc == SplitNl(format_gap(gap, step.lvl_before, config).doc)
        blank(ls) == {i \in 2..(Len(ls) - 1) : Trim(ls[i]) = <<>>}
        runs(ls) == {i \in blank(ls) : i - 1 \notin blank(ls)}
    IN (/\ pc = "emit"
        /\ index >= 1
        /\ Contains(gap, NL)) =>
           /\ Cardinality(blank(doc)) = Cardinality(runs(lines))
           /\ runs(doc) = blank(doc)

\* C26: in the general multi-line gap sub-procedure every transition from
\* one source line to the next emits a hardline followed by the current
\* indent: after any gap that holds a newline, blank lines included, the
\* content that follows starts at column indent_level * indent_width.
C26_ContentStartsAtIndent ==
    LET gap == tokens[index].gap_before
        doc == SplitNl(format_gap(gap, step.lvl_before, config).doc)
    IN (/\ pc = "emit"
        /\ index >= 1
        /\ Contains(gap, NL)
        /\ ~(Contains(gap, "{") \/ Contains(gap, "}") \/ ContainsStr(gap, <<",", NL>>))) =>
           /\ Len(doc) >= 2
           /\ \A k \in 2..Len(doc) :
                  \/ doc[k] = <<>> /\ k < Len(doc)
                  \/ /\ Len(doc[k]) >= indent_level * config.indent_width
                     /\ SubSeq(doc[k], 1, indent_level * config.indent_width)
                            = indent_str(indent_level, config)
                     /\ (Len(doc[k]) > indent_level * config.indent_width =>
                             ~IsWs(doc[k][indent_level * config.indent_width + 1]))

-----------------------------------------------------------------------------
(* SpecEngine: threads calling format_source and debug_tokens, each call   *)
(* dereferencing the LazyLock ENGINE_STATE and building its own            *)
(* StateWorkingSet on it.  engine.once is the LazyLock's state, builds     *)
(* counts the runs of its closure, value identifies the EngineState built. *)

InitEngine ==
    /\ engine = [once |-> "uninit", builds |-> 0, value |-> 0,
                 threads |-> [t \in 1..MaxThreads |->
                                 [pc |-> "idle", call |-> "none", calls |-> 0,
                                  working_set |-> None]]]
    /\ source = <<>>
    /\ flattened = <<>>
    /\ pre = IdlePre
    /\ quote = IdleQuote
    /\ load = IdleLoad
    /\ cli = IdleCli
    /\ parse_errors = <<>>
    /\ config = DefaultConfig
    /\ pc = "idle"
    /\ tokens = <<>>
    /\ index = 0
    /\ interp_depth = 0
    /\ indent_level = 0
    /\ output = <<>>
    /\ result = NoResult
    /\ trace = <<>>
    /\ step = NoStep
    /\ first_pass = None

Deref_per_call(t) ==
    /\ engine.threads[t].pc = "idle"
    /\ engine.threads[t].calls < MaxCalls
    /\ \E call \in {"format_source", "debug_tokens"} :
           engine' = [engine EXCEPT !.once = "running",
                                    !.threads[t].pc = "init",
                                    !.threads[t].call = call]
    /\ UNCHANGED <<source, flattened, parse_errors, config, pc, tokens, index,
                   interp_depth, indent_level, output, result, trace, step,
                   first_pass, pre, quote, load, cli>>

\* StateWorkingSet::new(&ENGINE_STATE) at the start of a call: the first
\* dereference starts the closure, one made while the closure runs blocks,
\* a later one gets the value built.
Deref(t) ==
    /\ engine.threads[t].pc = "idle"
    /\ engine.threads[t].calls < MaxCalls
    /\ engine.once # "running"
    /\ \E call \in {"format_source", "debug_tokens"} :
           engine' = IF engine.once = "uninit"
                     THEN [engine EXCEPT !.once = "running",
                                         !.threads[t].pc = "init",
                                         !.threads[t].call = call]
                     ELSE [engine EXCEPT
                              !.threads[t].pc = "use",
                              !.threads[t].call = call,
                              !.threads[t].working_set =
                                  Some([owner |-> t, permanent_state |-> engine.value])]
    /\ UNCHANGED <<source, flattened, parse_errors, config, pc, tokens, index,
                   interp_depth, indent_level, output, result, trace, step,
                   first_pass, pre, quote, load, cli>>

\* The closure returns: create_default_context, add_shell_command_context.
Force(t) ==
    /\ engine.threads[t].pc = "init"
    /\ engine' = [engine EXCEPT
                     !.once = "ready",
                     !.builds = @ + 1,
                     !.value = engine.builds + 1,
                     !.threads[t].pc = "use",
                     !.threads[t].working_set =
                         Some([owner |-> t, permanent_state |-> engine.builds + 1])]
    /\ UNCHANGED <<source, flattened, parse_errors, config, pc, tokens, index,
                   interp_depth, indent_level, output, result, trace, step,
                   first_pass, pre, quote, load, cli>>

\* The call returns; its working set is dropped.
Return(t) ==
    /\ engine.threads[t].pc = "use"
    /\ engine' = [engine EXCEPT !.threads[t].pc = "idle",
                                !.threads[t].call = "none",
                                !.threads[t].calls = @ + 1,
                                !.threads[t].working_set = None]
    /\ UNCHANGED <<source, flattened, parse_errors, config, pc, tokens, index,
                   interp_depth, indent_level, output, result, trace, step,
                   first_pass, pre, quote, load, cli>>

NextEngine == \E t \in 1..MaxThreads : Deref(t) \/ Force(t) \/ Return(t)

SpecEngine == InitEngine /\ [][NextEngine]_vars

\* C27: the analyzer engine state is constructed at most once per process,
\* lazily on first use, is never mutated afterwards, and is reused by every
\* later format_source and debug_tokens call, calls running concurrently in
\* different threads included; each call owns its own working set.
C27_EngineBuiltOnceAndShared ==
    /\ [](/\ engine.builds <= 1
          /\ engine.once = "ready" <=> engine.builds = 1
          /\ engine.once = "uninit" =>
                 \A t \in 1..MaxThreads :
                     engine.threads[t].pc = "idle" /\ engine.threads[t].calls = 0
          /\ \A t \in 1..MaxThreads :
                 engine.threads[t].pc = "use" =>
                     /\ engine.once = "ready"
                     /\ engine.threads[t].working_set
                            = Some([owner |-> t, permanent_state |-> engine.value]))
    /\ [][engine.once = "ready" =>
              /\ engine'.once = "ready"
              /\ engine'.value = engine.value
              /\ engine'.builds = engine.builds]_vars

\* Two calls run at the same time on the one engine state, one of them the
\* second call of its thread.
C27_Witness_ConcurrentCalls ==
    /\ engine.builds = 1
    /\ engine.threads[1].pc = "use"
    /\ engine.threads[1].call = "debug_tokens"
    /\ engine.threads[1].calls = 1
    /\ engine.threads[2].pc = "use"
    /\ engine.threads[2].call = "format_source"

-----------------------------------------------------------------------------
(* SpecNest: format_source on a record or list of three elements whose     *)
(* second element is a record or list of two, each written on one line or  *)
(* on several, alone or on the line after a command.                       *)

SpecNest ==
    /\ \E kind \in {"Record", "List"}, after_command \in BOOLEAN,
          outer_ws \in {<<>>, <<NL>>}, inner_ws \in {<<>>, <<NL>>},
          long \in BOOLEAN, sep \in {<<",", " ">>, <<",", NL>>},
          inner_close \in {<<>>, <<NL>>, <<",", NL>>}, outer_close \in {<<>>, <<NL>>},
          cfg \in {DefaultConfig, [DefaultConfig EXCEPT !.max_width = NarrowConfig.max_width]} :
           LET element == Element(kind, FALSE)
               key == SubSeq(element, 1, Len(element) - 1)
               outer == Collection(kind, IF after_command THEN <<NL>> ELSE <<>>,
                                   outer_ws, 1, FALSE, sep, outer_close)
               inner == Collection(kind, <<>>, inner_ws, 2, long, sep, inner_close)
               pieces == <<outer[1]>> \o element \o <<Piece(<<>>, sep, kind)>>
                             \o key \o inner \o <<Piece(<<>>, sep, kind)>>
                             \o element \o <<outer[Len(outer)]>>
           IN InitFormat(Input((IF after_command
                                THEN <<Piece(<<>>, Word, "External")>> ELSE <<>>)
                                   \o pieces,
                               <<NL>>, cfg))
    /\ [][Next]_vars

\* C21: the backward scan is_in_multiline_collection is equivalent to an
\* explicit bracket stack: at every "," token it returns exactly the
\* force_multiline value decided at the nearest enclosing unmatched
\* collection opener, and false when no opener encloses the token.
C21_ScanEqualsBracketStack ==
    (/\ pc = "emit"
     /\ index >= 1
     /\ tokens[index].shape \in {"Record", "List"}
     /\ Trim(tokens[index].text) = <<",">>) =>
        LET closes(k) == /\ tokens[k].shape \in {"Record", "List"}
                         /\ Trim(tokens[k].text) \notin Brackets(TRUE)
                         /\ \/ EndsWith(Trim(tokens[k].text), "}")
                            \/ EndsWith(Trim(tokens[k].text), "]")
            opens(k) == /\ tokens[k].shape \in {"Record", "List"}
                        /\ Trim(tokens[k].text) \in Brackets(TRUE)
            stack[k \in 0..index] ==
                IF k = 0 THEN <<>>
                ELSE LET below == stack[k - 1]
                     IN IF opens(k)
                        THEN <<format_collection_token(tokens, k, 0, config).lvl = 1>> \o below
                        ELSE IF closes(k) /\ below # <<>> THEN Tail(below)
                        ELSE below
        IN is_in_multiline_collection(tokens, index)
               = (stack[index] # <<>> /\ Head(stack[index]))

\* C22: in the collection width estimate every opening bracket contributes
\* 1, every closing bracket 1 except the final close that brings the depth
\* to 0, which contributes 0, ":" and "," 2 each, and any other token the
\* length of its trimmed text; the close of a nested collection (depth 2 to
\* 1) contributes 1.
C22_EstimateContributions ==
    (/\ pc = "emit"
     /\ index >= 1
     /\ tokens[index].shape \in {"Record", "List"}
     /\ Trim(tokens[index].text) \in Brackets(TRUE)) =>
        LET contribution(trimmed, depth) ==
                IF trimmed \in Brackets(TRUE) THEN 1
                ELSE IF trimmed \in Brackets(FALSE) THEN (IF depth = 0 THEN 0 ELSE 1)
                ELSE IF trimmed \in {<<":">>, <<",">>} THEN 2
                ELSE Len(trimmed)
            walk[k \in index..Len(tokens)] ==
                IF k = index THEN [length |-> 2, depth |-> 1]
                ELSE LET before == walk[k - 1]
                         trimmed == Trim(tokens[k].text)
                         coll == tokens[k].shape \in {"Record", "List"}
                         depth == IF coll /\ trimmed \in Brackets(TRUE)
                                  THEN before.depth + 1
                                  ELSE IF coll /\ trimmed \in Brackets(FALSE)
                                  THEN before.depth - 1
                                  ELSE before.depth
                     IN IF before.depth = 0 THEN before
                        ELSE [length |-> before.length + contribution(trimmed, depth),
                              depth |-> depth]
        IN estimate_collection_length(tokens, index).length = walk[Len(tokens)].length

=============================================================================
